---- MODULE Spec2Model ----
(***************************************************************************)
(* Model of the dictionary build of shaw-spell:                            *)
(*   src/src/dictionaries/generate_dictionaries.py                         *)
(* process_readlex_with_lemmas followed by generate_dictionary: the        *)
(* per-key form construction, the signature pass, the merge pass, the      *)
(* index projection and the emission of the entries.                       *)
(*                                                                         *)
(* Python strings on which the code performs string operations (lower,     *)
(* split, startswith, substring test, comparison, concatenation) are       *)
(* sequences of Unicode code points.  Enumeration-like strings that are    *)
(* only tested for equality (dict_type, dialect, the var field, the        *)
(* dialect codes of the WordNet cache) are TLA+ strings.  Python's None    *)
(* is None (for code-point strings) or "None" (for enumeration strings).   *)
(* An ordered Python dict is the sequence of its items in insertion order  *)
(* where the code iterates it, and a function where it only looks keys up. *)
(***************************************************************************)
EXTENDS Integers, Sequences, FiniteSets, Bags, TLC

VARIABLES
    pc,                     \* position in main() / generate_dictionary
    i,                      \* index of the current loop iteration
    dialect,                \* 'gb' or 'us'
    dict_type,              \* 'shaw-eng', 'eng-shaw' or 'shaw-shaw'
    wordnet_cache,          \* comprehensive WordNet cache (lemma -> entry)
    definitions,            \* Latin definitions or Shavian definition cache
    readlex_raw,            \* readlex.json: items (key, entries) in file order
    readlex_data,           \* result of process_readlex_with_lemmas
    spelling_variant_cache, \* module-level memo _spelling_variant_cache
    readlex_entries,        \* items (key, {forms, definitions, canonical_shavian})
    entry_signatures,       \* items (key, signature) in insertion order
    entry_pos,              \* key -> sorted tuple of part-of-speech letters
    merged_entries,         \* items (key, entry) in insertion order
    variant_map,            \* key -> canonical key
    signature_to_key,       \* signature -> canonical key
    foreign_to_home,        \* foreign key -> home key
    index_to_entries,       \* items (index word, list of entry keys)
    written,                \* the d:entry elements written, in file order
    process,                \* number of the Python process that is running
    completed               \* what the calls of generate_dictionary returned with

vars == << pc, i, dialect, dict_type, wordnet_cache, definitions, readlex_raw,
           readlex_data, spelling_variant_cache, readlex_entries,
           entry_signatures, entry_pos, merged_entries, variant_map,
           signature_to_key, foreign_to_home, index_to_entries, written,
           process, completed >>

-----------------------------------------------------------------------------
(* Bounds of the model *)

\* Largest number of readlex keys in one input of the general specification.
MaxKeys == 2

\* Largest number of readlex keys in one input of a word-family specification.
MaxFamilyKeys == 4

-----------------------------------------------------------------------------
(* Python values and string operations *)

None == << -1 >>

Range(s) == { s[n] : n \in 1..Len(s) }

\* The case data of Unicode 14.0.0, which str.lower() and str.capitalize() read.
\* A run << lo, hi, step, delta >> stands for the characters lo, lo + step, ...
\* up to hi, each of which is mapped to itself plus delta.
\* Simple lower-case mappings.
ToLowerRuns ==
    << << 65, 90, 1, 32 >>, << 192, 214, 1, 32 >>, << 216, 222, 1, 32 >>,
       << 256, 302, 2, 1 >>, << 306, 310, 2, 1 >>, << 313, 327, 2, 1 >>,
       << 330, 374, 2, 1 >>, << 376, 376, 1, -121 >>, << 377, 381, 2, 1 >>,
       << 385, 385, 1, 210 >>, << 386, 388, 2, 1 >>, << 390, 390, 1, 206 >>,
       << 391, 391, 1, 1 >>, << 393, 394, 1, 205 >>, << 395, 395, 1, 1 >>,
       << 398, 398, 1, 79 >>, << 399, 399, 1, 202 >>, << 400, 400, 1, 203 >>,
       << 401, 401, 1, 1 >>, << 403, 403, 1, 205 >>, << 404, 404, 1, 207 >>,
       << 406, 406, 1, 211 >>, << 407, 407, 1, 209 >>, << 408, 408, 1, 1 >>,
       << 412, 412, 1, 211 >>, << 413, 413, 1, 213 >>, << 415, 415, 1, 214 >>,
       << 416, 420, 2, 1 >>, << 422, 422, 1, 218 >>, << 423, 423, 1, 1 >>,
       << 425, 425, 1, 218 >>, << 428, 428, 1, 1 >>, << 430, 430, 1, 218 >>,
       << 431, 431, 1, 1 >>, << 433, 434, 1, 217 >>, << 435, 437, 2, 1 >>,
       << 439, 439, 1, 219 >>, << 440, 440, 1, 1 >>, << 444, 444, 1, 1 >>,
       << 452, 452, 1, 2 >>, << 453, 453, 1, 1 >>, << 455, 455, 1, 2 >>,
       << 456, 456, 1, 1 >>, << 458, 458, 1, 2 >>, << 459, 475, 2, 1 >>,
       << 478, 494, 2, 1 >>, << 497, 497, 1, 2 >>, << 498, 500, 2, 1 >>,
       << 502, 502, 1, -97 >>, << 503, 503, 1, -56 >>, << 504, 542, 2, 1 >>,
       << 544, 544, 1, -130 >>, << 546, 562, 2, 1 >>, << 570, 570, 1, 10795 >>,
       << 571, 571, 1, 1 >>, << 573, 573, 1, -163 >>, << 574, 574, 1, 10792 >>,
       << 577, 577, 1, 1 >>, << 579, 579, 1, -195 >>, << 580, 580, 1, 69 >>,
       << 581, 581, 1, 71 >>, << 582, 590, 2, 1 >>, << 880, 882, 2, 1 >>,
       << 886, 886, 1, 1 >>, << 895, 895, 1, 116 >>, << 902, 902, 1, 38 >>,
       << 904, 906, 1, 37 >>, << 908, 908, 1, 64 >>, << 910, 911, 1, 63 >>,
       << 913, 929, 1, 32 >>, << 931, 939, 1, 32 >>, << 975, 975, 1, 8 >>,
       << 984, 1006, 2, 1 >>, << 1012, 1012, 1, -60 >>, << 1015, 1015, 1, 1 >>,
       << 1017, 1017, 1, -7 >>, << 1018, 1018, 1, 1 >>, << 1021, 1023, 1, -130 >>,
       << 1024, 1039, 1, 80 >>, << 1040, 1071, 1, 32 >>, << 1120, 1152, 2, 1 >>,
       << 1162, 1214, 2, 1 >>, << 1216, 1216, 1, 15 >>, << 1217, 1229, 2, 1 >>,
       << 1232, 1326, 2, 1 >>, << 1329, 1366, 1, 48 >>, << 4256, 4293, 1, 7264 >>,
       << 4295, 4295, 1, 7264 >>, << 4301, 4301, 1, 7264 >>, << 5024, 5103, 1, 38864 >>,
       << 5104, 5109, 1, 8 >>, << 7312, 7354, 1, -3008 >>, << 7357, 7359, 1, -3008 >>,
       << 7680, 7828, 2, 1 >>, << 7838, 7838, 1, -7615 >>, << 7840, 7934, 2, 1 >>,
       << 7944, 7951, 1, -8 >>, << 7960, 7965, 1, -8 >>, << 7976, 7983, 1, -8 >>,
       << 7992, 7999, 1, -8 >>, << 8008, 8013, 1, -8 >>, << 8025, 8031, 2, -8 >>,
       << 8040, 8047, 1, -8 >>, << 8072, 8079, 1, -8 >>, << 8088, 8095, 1, -8 >>,
       << 8104, 8111, 1, -8 >>, << 8120, 8121, 1, -8 >>, << 8122, 8123, 1, -74 >>,
       << 8124, 8124, 1, -9 >>, << 8136, 8139, 1, -86 >>, << 8140, 8140, 1, -9 >>,
       << 8152, 8153, 1, -8 >>, << 8154, 8155, 1, -100 >>, << 8168, 8169, 1, -8 >>,
       << 8170, 8171, 1, -112 >>, << 8172, 8172, 1, -7 >>, << 8184, 8185, 1, -128 >>,
       << 8186, 8187, 1, -126 >>, << 8188, 8188, 1, -9 >>, << 8486, 8486, 1, -7517 >>,
       << 8490, 8490, 1, -8383 >>, << 8491, 8491, 1, -8262 >>, << 8498, 8498, 1, 28 >>,
       << 8544, 8559, 1, 16 >>, << 8579, 8579, 1, 1 >>, << 9398, 9423, 1, 26 >>,
       << 11264, 11311, 1, 48 >>, << 11360, 11360, 1, 1 >>, << 11362, 11362, 1, -10743 >>,
       << 11363, 11363, 1, -3814 >>, << 11364, 11364, 1, -10727 >>, << 11367, 11371, 2, 1 >>,
       << 11373, 11373, 1, -10780 >>, << 11374, 11374, 1, -10749 >>, << 11375, 11375, 1, -10783 >>,
       << 11376, 11376, 1, -10782 >>, << 11378, 11378, 1, 1 >>, << 11381, 11381, 1, 1 >>,
       << 11390, 11391, 1, -10815 >>, << 11392, 11490, 2, 1 >>, << 11499, 11501, 2, 1 >>,
       << 11506, 11506, 1, 1 >>, << 42560, 42604, 2, 1 >>, << 42624, 42650, 2, 1 >>,
       << 42786, 42798, 2, 1 >>, << 42802, 42862, 2, 1 >>, << 42873, 42875, 2, 1 >>,
       << 42877, 42877, 1, -35332 >>, << 42878, 42886, 2, 1 >>, << 42891, 42891, 1, 1 >>,
       << 42893, 42893, 1, -42280 >>, << 42896, 42898, 2, 1 >>, << 42902, 42920, 2, 1 >>,
       << 42922, 42922, 1, -42308 >>, << 42923, 42923, 1, -42319 >>, << 42924, 42924, 1, -42315 >>,
       << 42925, 42925, 1, -42305 >>, << 42926, 42926, 1, -42308 >>, << 42928, 42928, 1, -42258 >>,
       << 42929, 42929, 1, -42282 >>, << 42930, 42930, 1, -42261 >>, << 42931, 42931, 1, 928 >>,
       << 42932, 42946, 2, 1 >>, << 42948, 42948, 1, -48 >>, << 42949, 42949, 1, -42307 >>,
       << 42950, 42950, 1, -35384 >>, << 42951, 42953, 2, 1 >>, << 42960, 42960, 1, 1 >>,
       << 42966, 42968, 2, 1 >>, << 42997, 42997, 1, 1 >>, << 65313, 65338, 1, 32 >>,
       << 66560, 66599, 1, 40 >>, << 66736, 66771, 1, 40 >>, << 66928, 66938, 1, 39 >>,
       << 66940, 66954, 1, 39 >>, << 66956, 66962, 1, 39 >>, << 66964, 66965, 1, 39 >>,
       << 68736, 68786, 1, 64 >>, << 71840, 71871, 1, 32 >>, << 93760, 93791, 1, 32 >>,
       << 125184, 125217, 1, 34 >> >>

\* Title-case mappings to one character.
ToTitleRuns ==
    << << 97, 122, 1, -32 >>, << 181, 181, 1, 743 >>, << 224, 246, 1, -32 >>,
       << 248, 254, 1, -32 >>, << 255, 255, 1, 121 >>, << 257, 303, 2, -1 >>,
       << 305, 305, 1, -232 >>, << 307, 311, 2, -1 >>, << 314, 328, 2, -1 >>,
       << 331, 375, 2, -1 >>, << 378, 382, 2, -1 >>, << 383, 383, 1, -300 >>,
       << 384, 384, 1, 195 >>, << 387, 389, 2, -1 >>, << 392, 392, 1, -1 >>,
       << 396, 396, 1, -1 >>, << 402, 402, 1, -1 >>, << 405, 405, 1, 97 >>,
       << 409, 409, 1, -1 >>, << 410, 410, 1, 163 >>, << 414, 414, 1, 130 >>,
       << 417, 421, 2, -1 >>, << 424, 424, 1, -1 >>, << 429, 429, 1, -1 >>,
       << 432, 432, 1, -1 >>, << 436, 438, 2, -1 >>, << 441, 441, 1, -1 >>,
       << 445, 445, 1, -1 >>, << 447, 447, 1, 56 >>, << 452, 452, 1, 1 >>,
       << 454, 454, 1, -1 >>, << 455, 455, 1, 1 >>, << 457, 457, 1, -1 >>,
       << 458, 458, 1, 1 >>, << 460, 476, 2, -1 >>, << 477, 477, 1, -79 >>,
       << 479, 495, 2, -1 >>, << 497, 497, 1, 1 >>, << 499, 501, 2, -1 >>,
       << 505, 543, 2, -1 >>, << 547, 563, 2, -1 >>, << 572, 572, 1, -1 >>,
       << 575, 576, 1, 10815 >>, << 578, 578, 1, -1 >>, << 583, 591, 2, -1 >>,
       << 592, 592, 1, 10783 >>, << 593, 593, 1, 10780 >>, << 594, 594, 1, 10782 >>,
       << 595, 595, 1, -210 >>, << 596, 596, 1, -206 >>, << 598, 599, 1, -205 >>,
       << 601, 601, 1, -202 >>, << 603, 603, 1, -203 >>, << 604, 604, 1, 42319 >>,
       << 608, 608, 1, -205 >>, << 609, 609, 1, 42315 >>, << 611, 611, 1, -207 >>,
       << 613, 613, 1, 42280 >>, << 614, 614, 1, 42308 >>, << 616, 616, 1, -209 >>,
       << 617, 617, 1, -211 >>, << 618, 618, 1, 42308 >>, << 619, 619, 1, 10743 >>,
       << 620, 620, 1, 42305 >>, << 623, 623, 1, -211 >>, << 625, 625, 1, 10749 >>,
       << 626, 626, 1, -213 >>, << 629, 629, 1, -214 >>, << 637, 637, 1, 10727 >>,
       << 640, 640, 1, -218 >>, << 642, 642, 1, 42307 >>, << 643, 643, 1, -218 >>,
       << 647, 647, 1, 42282 >>, << 648, 648, 1, -218 >>, << 649, 649, 1, -69 >>,
       << 650, 651, 1, -217 >>, << 652, 652, 1, -71 >>, << 658, 658, 1, -219 >>,
       << 669, 669, 1, 42261 >>, << 670, 670, 1, 42258 >>, << 837, 837, 1, 84 >>,
       << 881, 883, 2, -1 >>, << 887, 887, 1, -1 >>, << 891, 893, 1, 130 >>,
       << 940, 940, 1, -38 >>, << 941, 943, 1, -37 >>, << 945, 961, 1, -32 >>,
       << 962, 962, 1, -31 >>, << 963, 971, 1, -32 >>, << 972, 972, 1, -64 >>,
       << 973, 974, 1, -63 >>, << 976, 976, 1, -62 >>, << 977, 977, 1, -57 >>,
       << 981, 981, 1, -47 >>, << 982, 982, 1, -54 >>, << 983, 983, 1, -8 >>,
       << 985, 1007, 2, -1 >>, << 1008, 1008, 1, -86 >>, << 1009, 1009, 1, -80 >>,
       << 1010, 1010, 1, 7 >>, << 1011, 1011, 1, -116 >>, << 1013, 1013, 1, -96 >>,
       << 1016, 1016, 1, -1 >>, << 1019, 1019, 1, -1 >>, << 1072, 1103, 1, -32 >>,
       << 1104, 1119, 1, -80 >>, << 1121, 1153, 2, -1 >>, << 1163, 1215, 2, -1 >>,
       << 1218, 1230, 2, -1 >>, << 1231, 1231, 1, -15 >>, << 1233, 1327, 2, -1 >>,
       << 1377, 1414, 1, -48 >>, << 5112, 5117, 1, -8 >>, << 7296, 7296, 1, -6254 >>,
       << 7297, 7297, 1, -6253 >>, << 7298, 7298, 1, -6244 >>, << 7299, 7300, 1, -6242 >>,
       << 7301, 7301, 1, -6243 >>, << 7302, 7302, 1, -6236 >>, << 7303, 7303, 1, -6181 >>,
       << 7304, 7304, 1, 35266 >>, << 7545, 7545, 1, 35332 >>, << 7549, 7549, 1, 3814 >>,
       << 7566, 7566, 1, 35384 >>, << 7681, 7829, 2, -1 >>, << 7835, 7835, 1, -59 >>,
       << 7841, 7935, 2, -1 >>, << 7936, 7943, 1, 8 >>, << 7952, 7957, 1, 8 >>,
       << 7968, 7975, 1, 8 >>, << 7984, 7991, 1, 8 >>, << 8000, 8005, 1, 8 >>,
       << 8017, 8023, 2, 8 >>, << 8032, 8039, 1, 8 >>, << 8048, 8049, 1, 74 >>,
       << 8050, 8053, 1, 86 >>, << 8054, 8055, 1, 100 >>, << 8056, 8057, 1, 128 >>,
       << 8058, 8059, 1, 112 >>, << 8060, 8061, 1, 126 >>, << 8064, 8071, 1, 8 >>,
       << 8080, 8087, 1, 8 >>, << 8096, 8103, 1, 8 >>, << 8112, 8113, 1, 8 >>,
       << 8115, 8115, 1, 9 >>, << 8126, 8126, 1, -7205 >>, << 8131, 8131, 1, 9 >>,
       << 8144, 8145, 1, 8 >>, << 8160, 8161, 1, 8 >>, << 8165, 8165, 1, 7 >>,
       << 8179, 8179, 1, 9 >>, << 8526, 8526, 1, -28 >>, << 8560, 8575, 1, -16 >>,
       << 8580, 8580, 1, -1 >>, << 9424, 9449, 1, -26 >>, << 11312, 11359, 1, -48 >>,
       << 11361, 11361, 1, -1 >>, << 11365, 11365, 1, -10795 >>, << 11366, 11366, 1, -10792 >>,
       << 11368, 11372, 2, -1 >>, << 11379, 11379, 1, -1 >>, << 11382, 11382, 1, -1 >>,
       << 11393, 11491, 2, -1 >>, << 11500, 11502, 2, -1 >>, << 11507, 11507, 1, -1 >>,
       << 11520, 11557, 1, -7264 >>, << 11559, 11559, 1, -7264 >>, << 11565, 11565, 1, -7264 >>,
       << 42561, 42605, 2, -1 >>, << 42625, 42651, 2, -1 >>, << 42787, 42799, 2, -1 >>,
       << 42803, 42863, 2, -1 >>, << 42874, 42876, 2, -1 >>, << 42879, 42887, 2, -1 >>,
       << 42892, 42892, 1, -1 >>, << 42897, 42899, 2, -1 >>, << 42900, 42900, 1, 48 >>,
       << 42903, 42921, 2, -1 >>, << 42933, 42947, 2, -1 >>, << 42952, 42954, 2, -1 >>,
       << 42961, 42961, 1, -1 >>, << 42967, 42969, 2, -1 >>, << 42998, 42998, 1, -1 >>,
       << 43859, 43859, 1, -928 >>, << 43888, 43967, 1, -38864 >>, << 65345, 65370, 1, -32 >>,
       << 66600, 66639, 1, -40 >>, << 66776, 66811, 1, -40 >>, << 66967, 66977, 1, -39 >>,
       << 66979, 66993, 1, -39 >>, << 66995, 67001, 1, -39 >>, << 67003, 67004, 1, -39 >>,
       << 68800, 68850, 1, -64 >>, << 71872, 71903, 1, -32 >>, << 93792, 93823, 1, -32 >>,
       << 125218, 125251, 1, -34 >> >>

\* Title-case mappings to more than one character: << character, mapping >>.
SpecialTitle ==
    << << 223, << 83, 115 >> >>, << 329, << 700, 78 >> >>,
       << 496, << 74, 780 >> >>, << 912, << 921, 776, 769 >> >>,
       << 944, << 933, 776, 769 >> >>, << 1415, << 1333, 1410 >> >>,
       << 7830, << 72, 817 >> >>, << 7831, << 84, 776 >> >>,
       << 7832, << 87, 778 >> >>, << 7833, << 89, 778 >> >>,
       << 7834, << 65, 702 >> >>, << 8016, << 933, 787 >> >>,
       << 8018, << 933, 787, 768 >> >>, << 8020, << 933, 787, 769 >> >>,
       << 8022, << 933, 787, 834 >> >>, << 8114, << 8122, 837 >> >>,
       << 8116, << 902, 837 >> >>, << 8118, << 913, 834 >> >>,
       << 8119, << 913, 834, 837 >> >>, << 8130, << 8138, 837 >> >>,
       << 8132, << 905, 837 >> >>, << 8134, << 919, 834 >> >>,
       << 8135, << 919, 834, 837 >> >>, << 8146, << 921, 776, 768 >> >>,
       << 8147, << 921, 776, 769 >> >>, << 8150, << 921, 834 >> >>,
       << 8151, << 921, 776, 834 >> >>, << 8162, << 933, 776, 768 >> >>,
       << 8163, << 933, 776, 769 >> >>, << 8164, << 929, 787 >> >>,
       << 8166, << 933, 834 >> >>, << 8167, << 933, 776, 834 >> >>,
       << 8178, << 8186, 837 >> >>, << 8180, << 911, 837 >> >>,
       << 8182, << 937, 834 >> >>, << 8183, << 937, 834, 837 >> >>,
       << 64256, << 70, 102 >> >>, << 64257, << 70, 105 >> >>,
       << 64258, << 70, 108 >> >>, << 64259, << 70, 102, 105 >> >>,
       << 64260, << 70, 102, 108 >> >>, << 64261, << 83, 116 >> >>,
       << 64262, << 83, 116 >> >>, << 64275, << 1348, 1398 >> >>,
       << 64276, << 1348, 1381 >> >>, << 64277, << 1348, 1387 >> >>,
       << 64278, << 1358, 1398 >> >>, << 64279, << 1348, 1389 >> >> >>

\* The characters with the property Cased, as runs << lo, hi, step >>.
CasedRuns ==
    << << 65, 90, 1 >>, << 97, 122, 1 >>, << 170, 170, 1 >>, << 181, 181, 1 >>,
       << 186, 186, 1 >>, << 192, 214, 1 >>, << 216, 246, 1 >>, << 248, 442, 1 >>,
       << 444, 447, 1 >>, << 452, 659, 1 >>, << 661, 696, 1 >>, << 704, 705, 1 >>,
       << 736, 740, 1 >>, << 837, 837, 1 >>, << 880, 883, 1 >>, << 886, 887, 1 >>,
       << 890, 893, 1 >>, << 895, 895, 1 >>, << 902, 904, 2 >>, << 905, 906, 1 >>,
       << 908, 910, 2 >>, << 911, 929, 1 >>, << 931, 1013, 1 >>, << 1015, 1153, 1 >>,
       << 1162, 1327, 1 >>, << 1329, 1366, 1 >>, << 1376, 1416, 1 >>, << 4256, 4293, 1 >>,
       << 4295, 4295, 1 >>, << 4301, 4301, 1 >>, << 4304, 4346, 1 >>, << 4349, 4351, 1 >>,
       << 5024, 5109, 1 >>, << 5112, 5117, 1 >>, << 7296, 7304, 1 >>, << 7312, 7354, 1 >>,
       << 7357, 7359, 1 >>, << 7424, 7615, 1 >>, << 7680, 7957, 1 >>, << 7960, 7965, 1 >>,
       << 7968, 8005, 1 >>, << 8008, 8013, 1 >>, << 8016, 8023, 1 >>, << 8025, 8031, 2 >>,
       << 8032, 8061, 1 >>, << 8064, 8116, 1 >>, << 8118, 8124, 1 >>, << 8126, 8126, 1 >>,
       << 8130, 8132, 1 >>, << 8134, 8140, 1 >>, << 8144, 8147, 1 >>, << 8150, 8155, 1 >>,
       << 8160, 8172, 1 >>, << 8178, 8180, 1 >>, << 8182, 8188, 1 >>, << 8305, 8305, 1 >>,
       << 8319, 8319, 1 >>, << 8336, 8348, 1 >>, << 8450, 8450, 1 >>, << 8455, 8455, 1 >>,
       << 8458, 8467, 1 >>, << 8469, 8469, 1 >>, << 8473, 8477, 1 >>, << 8484, 8490, 2 >>,
       << 8491, 8493, 1 >>, << 8495, 8500, 1 >>, << 8505, 8505, 1 >>, << 8508, 8511, 1 >>,
       << 8517, 8521, 1 >>, << 8526, 8526, 1 >>, << 8544, 8575, 1 >>, << 8579, 8580, 1 >>,
       << 9398, 9449, 1 >>, << 11264, 11492, 1 >>, << 11499, 11502, 1 >>, << 11506, 11507, 1 >>,
       << 11520, 11557, 1 >>, << 11559, 11559, 1 >>, << 11565, 11565, 1 >>, << 42560, 42605, 1 >>,
       << 42624, 42653, 1 >>, << 42786, 42887, 1 >>, << 42891, 42894, 1 >>, << 42896, 42954, 1 >>,
       << 42960, 42961, 1 >>, << 42963, 42965, 2 >>, << 42966, 42969, 1 >>, << 42997, 42998, 1 >>,
       << 43000, 43002, 1 >>, << 43824, 43866, 1 >>, << 43868, 43880, 1 >>, << 43888, 43967, 1 >>,
       << 64256, 64262, 1 >>, << 64275, 64279, 1 >>, << 65313, 65338, 1 >>, << 65345, 65370, 1 >>,
       << 66560, 66639, 1 >>, << 66736, 66771, 1 >>, << 66776, 66811, 1 >>, << 66928, 66938, 1 >>,
       << 66940, 66954, 1 >>, << 66956, 66962, 1 >>, << 66964, 66965, 1 >>, << 66967, 66977, 1 >>,
       << 66979, 66993, 1 >>, << 66995, 67001, 1 >>, << 67003, 67004, 1 >>, << 67456, 67456, 1 >>,
       << 67459, 67461, 1 >>, << 67463, 67504, 1 >>, << 67506, 67514, 1 >>, << 68736, 68786, 1 >>,
       << 68800, 68850, 1 >>, << 71840, 71903, 1 >>, << 93760, 93823, 1 >>, << 119808, 119892, 1 >>,
       << 119894, 119964, 1 >>, << 119966, 119967, 1 >>, << 119970, 119970, 1 >>, << 119973, 119974, 1 >>,
       << 119977, 119980, 1 >>, << 119982, 119993, 1 >>, << 119995, 119997, 2 >>, << 119998, 120003, 1 >>,
       << 120005, 120069, 1 >>, << 120071, 120074, 1 >>, << 120077, 120084, 1 >>, << 120086, 120092, 1 >>,
       << 120094, 120121, 1 >>, << 120123, 120126, 1 >>, << 120128, 120132, 1 >>, << 120134, 120134, 1 >>,
       << 120138, 120144, 1 >>, << 120146, 120485, 1 >>, << 120488, 120512, 1 >>, << 120514, 120538, 1 >>,
       << 120540, 120570, 1 >>, << 120572, 120596, 1 >>, << 120598, 120628, 1 >>, << 120630, 120654, 1 >>,
       << 120656, 120686, 1 >>, << 120688, 120712, 1 >>, << 120714, 120744, 1 >>, << 120746, 120770, 1 >>,
       << 120772, 120779, 1 >>, << 122624, 122633, 1 >>, << 122635, 122654, 1 >>, << 125184, 125251, 1 >>,
       << 127280, 127305, 1 >>, << 127312, 127337, 1 >>, << 127344, 127369, 1 >> >>

\* The characters with the property Case_Ignorable, as runs << lo, hi, step >>.
CaseIgnorableRuns ==
    << << 39, 39, 1 >>, << 46, 46, 1 >>, << 58, 58, 1 >>, << 94, 96, 2 >>,
       << 168, 168, 1 >>, << 173, 175, 2 >>, << 180, 180, 1 >>, << 183, 184, 1 >>,
       << 688, 879, 1 >>, << 884, 885, 1 >>, << 890, 890, 1 >>, << 900, 901, 1 >>,
       << 903, 903, 1 >>, << 1155, 1161, 1 >>, << 1369, 1369, 1 >>, << 1375, 1375, 1 >>,
       << 1425, 1469, 1 >>, << 1471, 1473, 2 >>, << 1474, 1476, 2 >>, << 1477, 1479, 2 >>,
       << 1524, 1524, 1 >>, << 1536, 1541, 1 >>, << 1552, 1562, 1 >>, << 1564, 1564, 1 >>,
       << 1600, 1600, 1 >>, << 1611, 1631, 1 >>, << 1648, 1648, 1 >>, << 1750, 1757, 1 >>,
       << 1759, 1768, 1 >>, << 1770, 1773, 1 >>, << 1807, 1809, 2 >>, << 1840, 1866, 1 >>,
       << 1958, 1968, 1 >>, << 2027, 2037, 1 >>, << 2042, 2042, 1 >>, << 2045, 2045, 1 >>,
       << 2070, 2093, 1 >>, << 2137, 2139, 1 >>, << 2184, 2184, 1 >>, << 2192, 2193, 1 >>,
       << 2200, 2207, 1 >>, << 2249, 2306, 1 >>, << 2362, 2364, 2 >>, << 2369, 2376, 1 >>,
       << 2381, 2381, 1 >>, << 2385, 2391, 1 >>, << 2402, 2403, 1 >>, << 2417, 2417, 1 >>,
       << 2433, 2433, 1 >>, << 2492, 2492, 1 >>, << 2497, 2500, 1 >>, << 2509, 2509, 1 >>,
       << 2530, 2531, 1 >>, << 2558, 2558, 1 >>, << 2561, 2562, 1 >>, << 2620, 2620, 1 >>,
       << 2625, 2626, 1 >>, << 2631, 2632, 1 >>, << 2635, 2637, 1 >>, << 2641, 2641, 1 >>,
       << 2672, 2673, 1 >>, << 2677, 2677, 1 >>, << 2689, 2690, 1 >>, << 2748, 2748, 1 >>,
       << 2753, 2757, 1 >>, << 2759, 2760, 1 >>, << 2765, 2765, 1 >>, << 2786, 2787, 1 >>,
       << 2810, 2815, 1 >>, << 2817, 2817, 1 >>, << 2876, 2876, 1 >>, << 2879, 2881, 2 >>,
       << 2882, 2884, 1 >>, << 2893, 2893, 1 >>, << 2901, 2902, 1 >>, << 2914, 2915, 1 >>,
       << 2946, 2946, 1 >>, << 3008, 3008, 1 >>, << 3021, 3021, 1 >>, << 3072, 3072, 1 >>,
       << 3076, 3076, 1 >>, << 3132, 3134, 2 >>, << 3135, 3136, 1 >>, << 3142, 3144, 1 >>,
       << 3146, 3149, 1 >>, << 3157, 3158, 1 >>, << 3170, 3171, 1 >>, << 3201, 3201, 1 >>,
       << 3260, 3260, 1 >>, << 3263, 3263, 1 >>, << 3270, 3270, 1 >>, << 3276, 3277, 1 >>,
       << 3298, 3299, 1 >>, << 3328, 3329, 1 >>, << 3387, 3388, 1 >>, << 3393, 3396, 1 >>,
       << 3405, 3405, 1 >>, << 3426, 3427, 1 >>, << 3457, 3457, 1 >>, << 3530, 3530, 1 >>,
       << 3538, 3540, 1 >>, << 3542, 3542, 1 >>, << 3633, 3633, 1 >>, << 3636, 3642, 1 >>,
       << 3654, 3662, 1 >>, << 3761, 3761, 1 >>, << 3764, 3772, 1 >>, << 3782, 3784, 2 >>,
       << 3785, 3789, 1 >>, << 3864, 3865, 1 >>, << 3893, 3897, 2 >>, << 3953, 3966, 1 >>,
       << 3968, 3972, 1 >>, << 3974, 3975, 1 >>, << 3981, 3991, 1 >>, << 3993, 4028, 1 >>,
       << 4038, 4038, 1 >>, << 4141, 4144, 1 >>, << 4146, 4151, 1 >>, << 4153, 4154, 1 >>,
       << 4157, 4158, 1 >>, << 4184, 4185, 1 >>, << 4190, 4192, 1 >>, << 4209, 4212, 1 >>,
       << 4226, 4226, 1 >>, << 4229, 4230, 1 >>, << 4237, 4237, 1 >>, << 4253, 4253, 1 >>,
       << 4348, 4348, 1 >>, << 4957, 4959, 1 >>, << 5906, 5908, 1 >>, << 5938, 5939, 1 >>,
       << 5970, 5971, 1 >>, << 6002, 6003, 1 >>, << 6068, 6069, 1 >>, << 6071, 6077, 1 >>,
       << 6086, 6086, 1 >>, << 6089, 6099, 1 >>, << 6103, 6103, 1 >>, << 6109, 6109, 1 >>,
       << 6155, 6159, 1 >>, << 6211, 6211, 1 >>, << 6277, 6278, 1 >>, << 6313, 6313, 1 >>,
       << 6432, 6434, 1 >>, << 6439, 6440, 1 >>, << 6450, 6450, 1 >>, << 6457, 6459, 1 >>,
       << 6679, 6680, 1 >>, << 6683, 6683, 1 >>, << 6742, 6744, 2 >>, << 6745, 6750, 1 >>,
       << 6752, 6754, 2 >>, << 6757, 6764, 1 >>, << 6771, 6780, 1 >>, << 6783, 6783, 1 >>,
       << 6823, 6823, 1 >>, << 6832, 6862, 1 >>, << 6912, 6915, 1 >>, << 6964, 6966, 2 >>,
       << 6967, 6970, 1 >>, << 6972, 6972, 1 >>, << 6978, 6978, 1 >>, << 7019, 7027, 1 >>,
       << 7040, 7041, 1 >>, << 7074, 7077, 1 >>, << 7080, 7081, 1 >>, << 7083, 7085, 1 >>,
       << 7142, 7144, 2 >>, << 7145, 7145, 1 >>, << 7149, 7151, 2 >>, << 7152, 7153, 1 >>,
       << 7212, 7219, 1 >>, << 7222, 7223, 1 >>, << 7288, 7293, 1 >>, << 7376, 7378, 1 >>,
       << 7380, 7392, 1 >>, << 7394, 7400, 1 >>, << 7405, 7405, 1 >>, << 7412, 7412, 1 >>,
       << 7416, 7417, 1 >>, << 7468, 7530, 1 >>, << 7544, 7544, 1 >>, << 7579, 7679, 1 >>,
       << 8125, 8127, 2 >>, << 8128, 8129, 1 >>, << 8141, 8143, 1 >>, << 8157, 8159, 1 >>,
       << 8173, 8175, 1 >>, << 8189, 8190, 1 >>, << 8203, 8207, 1 >>, << 8216, 8217, 1 >>,
       << 8228, 8228, 1 >>, << 8231, 8231, 1 >>, << 8234, 8238, 1 >>, << 8288, 8292, 1 >>,
       << 8294, 8303, 1 >>, << 8305, 8305, 1 >>, << 8319, 8319, 1 >>, << 8336, 8348, 1 >>,
       << 8400, 8432, 1 >>, << 11388, 11389, 1 >>, << 11503, 11505, 1 >>, << 11631, 11631, 1 >>,
       << 11647, 11647, 1 >>, << 11744, 11775, 1 >>, << 11823, 11823, 1 >>, << 12293, 12293, 1 >>,
       << 12330, 12333, 1 >>, << 12337, 12341, 1 >>, << 12347, 12347, 1 >>, << 12441, 12446, 1 >>,
       << 12540, 12542, 1 >>, << 40981, 40981, 1 >>, << 42232, 42237, 1 >>, << 42508, 42508, 1 >>,
       << 42607, 42610, 1 >>, << 42612, 42621, 1 >>, << 42623, 42623, 1 >>, << 42652, 42655, 1 >>,
       << 42736, 42737, 1 >>, << 42752, 42785, 1 >>, << 42864, 42864, 1 >>, << 42888, 42890, 1 >>,
       << 42994, 42996, 1 >>, << 43000, 43001, 1 >>, << 43010, 43010, 1 >>, << 43014, 43014, 1 >>,
       << 43019, 43019, 1 >>, << 43045, 43046, 1 >>, << 43052, 43052, 1 >>, << 43204, 43205, 1 >>,
       << 43232, 43249, 1 >>, << 43263, 43263, 1 >>, << 43302, 43309, 1 >>, << 43335, 43345, 1 >>,
       << 43392, 43394, 1 >>, << 43443, 43443, 1 >>, << 43446, 43449, 1 >>, << 43452, 43453, 1 >>,
       << 43471, 43471, 1 >>, << 43493, 43494, 1 >>, << 43561, 43566, 1 >>, << 43569, 43570, 1 >>,
       << 43573, 43574, 1 >>, << 43587, 43587, 1 >>, << 43596, 43596, 1 >>, << 43632, 43632, 1 >>,
       << 43644, 43644, 1 >>, << 43696, 43698, 2 >>, << 43699, 43700, 1 >>, << 43703, 43704, 1 >>,
       << 43710, 43711, 1 >>, << 43713, 43713, 1 >>, << 43741, 43741, 1 >>, << 43756, 43757, 1 >>,
       << 43763, 43764, 1 >>, << 43766, 43766, 1 >>, << 43867, 43871, 1 >>, << 43881, 43883, 1 >>,
       << 44005, 44005, 1 >>, << 44008, 44008, 1 >>, << 44013, 44013, 1 >>, << 64286, 64286, 1 >>,
       << 64434, 64450, 1 >>, << 65024, 65039, 1 >>, << 65043, 65043, 1 >>, << 65056, 65071, 1 >>,
       << 65106, 65106, 1 >>, << 65109, 65109, 1 >>, << 65279, 65279, 1 >>, << 65287, 65287, 1 >>,
       << 65294, 65294, 1 >>, << 65306, 65306, 1 >>, << 65342, 65344, 2 >>, << 65392, 65392, 1 >>,
       << 65438, 65439, 1 >>, << 65507, 65507, 1 >>, << 65529, 65531, 1 >>, << 66045, 66045, 1 >>,
       << 66272, 66272, 1 >>, << 66422, 66426, 1 >>, << 67456, 67461, 1 >>, << 67463, 67504, 1 >>,
       << 67506, 67514, 1 >>, << 68097, 68099, 1 >>, << 68101, 68102, 1 >>, << 68108, 68111, 1 >>,
       << 68152, 68154, 1 >>, << 68159, 68159, 1 >>, << 68325, 68326, 1 >>, << 68900, 68903, 1 >>,
       << 69291, 69292, 1 >>, << 69446, 69456, 1 >>, << 69506, 69509, 1 >>, << 69633, 69633, 1 >>,
       << 69688, 69702, 1 >>, << 69744, 69744, 1 >>, << 69747, 69748, 1 >>, << 69759, 69761, 1 >>,
       << 69811, 69814, 1 >>, << 69817, 69818, 1 >>, << 69821, 69821, 1 >>, << 69826, 69826, 1 >>,
       << 69837, 69837, 1 >>, << 69888, 69890, 1 >>, << 69927, 69931, 1 >>, << 69933, 69940, 1 >>,
       << 70003, 70003, 1 >>, << 70016, 70017, 1 >>, << 70070, 70078, 1 >>, << 70089, 70092, 1 >>,
       << 70095, 70095, 1 >>, << 70191, 70193, 1 >>, << 70196, 70198, 2 >>, << 70199, 70199, 1 >>,
       << 70206, 70206, 1 >>, << 70367, 70367, 1 >>, << 70371, 70378, 1 >>, << 70400, 70401, 1 >>,
       << 70459, 70460, 1 >>, << 70464, 70464, 1 >>, << 70502, 70508, 1 >>, << 70512, 70516, 1 >>,
       << 70712, 70719, 1 >>, << 70722, 70724, 1 >>, << 70726, 70726, 1 >>, << 70750, 70750, 1 >>,
       << 70835, 70840, 1 >>, << 70842, 70842, 1 >>, << 70847, 70848, 1 >>, << 70850, 70851, 1 >>,
       << 71090, 71093, 1 >>, << 71100, 71101, 1 >>, << 71103, 71104, 1 >>, << 71132, 71133, 1 >>,
       << 71219, 71226, 1 >>, << 71229, 71231, 2 >>, << 71232, 71232, 1 >>, << 71339, 71341, 2 >>,
       << 71344, 71349, 1 >>, << 71351, 71351, 1 >>, << 71453, 71455, 1 >>, << 71458, 71461, 1 >>,
       << 71463, 71467, 1 >>, << 71727, 71735, 1 >>, << 71737, 71738, 1 >>, << 71995, 71996, 1 >>,
       << 71998, 71998, 1 >>, << 72003, 72003, 1 >>, << 72148, 72151, 1 >>, << 72154, 72155, 1 >>,
       << 72160, 72160, 1 >>, << 72193, 72202, 1 >>, << 72243, 72248, 1 >>, << 72251, 72254, 1 >>,
       << 72263, 72263, 1 >>, << 72273, 72278, 1 >>, << 72281, 72283, 1 >>, << 72330, 72342, 1 >>,
       << 72344, 72345, 1 >>, << 72752, 72758, 1 >>, << 72760, 72765, 1 >>, << 72767, 72767, 1 >>,
       << 72850, 72871, 1 >>, << 72874, 72880, 1 >>, << 72882, 72883, 1 >>, << 72885, 72886, 1 >>,
       << 73009, 73014, 1 >>, << 73018, 73020, 2 >>, << 73021, 73023, 2 >>, << 73024, 73029, 1 >>,
       << 73031, 73031, 1 >>, << 73104, 73105, 1 >>, << 73109, 73111, 2 >>, << 73459, 73460, 1 >>,
       << 78896, 78904, 1 >>, << 92912, 92916, 1 >>, << 92976, 92982, 1 >>, << 92992, 92995, 1 >>,
       << 94031, 94031, 1 >>, << 94095, 94111, 1 >>, << 94176, 94177, 1 >>, << 94179, 94180, 1 >>,
       << 110576, 110579, 1 >>, << 110581, 110587, 1 >>, << 110589, 110590, 1 >>, << 113821, 113822, 1 >>,
       << 113824, 113827, 1 >>, << 118528, 118573, 1 >>, << 118576, 118598, 1 >>, << 119143, 119145, 1 >>,
       << 119155, 119170, 1 >>, << 119173, 119179, 1 >>, << 119210, 119213, 1 >>, << 119362, 119364, 1 >>,
       << 121344, 121398, 1 >>, << 121403, 121452, 1 >>, << 121461, 121461, 1 >>, << 121476, 121476, 1 >>,
       << 121499, 121503, 1 >>, << 121505, 121519, 1 >>, << 122880, 122886, 1 >>, << 122888, 122904, 1 >>,
       << 122907, 122913, 1 >>, << 122915, 122916, 1 >>, << 122918, 122922, 1 >>, << 123184, 123197, 1 >>,
       << 123566, 123566, 1 >>, << 123628, 123631, 1 >>, << 125136, 125142, 1 >>, << 125252, 125259, 1 >>,
       << 127995, 127999, 1 >>, << 917505, 917505, 1 >>, << 917536, 917631, 1 >>, << 917760, 917999, 1 >> >>

InRun(c, run) == c >= run[1] /\ c <= run[2] /\ (c - run[1]) % run[3] = 0

\* The mapping of c under a table of runs: c itself where no run holds it.
Mapped(c, runs) ==
    IF \E n \in 1..Len(runs) : InRun(c, runs[n])
    THEN c + runs[CHOOSE n \in 1..Len(runs) : InRun(c, runs[n])][4]
    ELSE c

cased(c) == \E n \in 1..Len(CasedRuns) : InRun(c, CasedRuns[n])

case_ignorable(c) == \E n \in 1..Len(CaseIgnorableRuns) : InRun(c, CaseIgnorableRuns[n])

\* The lower case of one character, a string: that of U+0130 has two
\* characters. An ASCII character is mapped without the tables.
LowerChar(c) ==
    IF c < 128 THEN << IF c >= 65 /\ c <= 90 THEN c + 32 ELSE c >>
    ELSE IF c = 304 THEN << 105, 775 >>
    ELSE << Mapped(c, ToLowerRuns) >>

\* The title case of one character, a string of one to three characters. An
\* ASCII character is mapped without the tables.
TitleChar(c) ==
    IF c < 128 THEN << IF c >= 97 /\ c <= 122 THEN c - 32 ELSE c >>
    ELSE IF \E n \in 1..Len(SpecialTitle) : SpecialTitle[n][1] = c
    THEN SpecialTitle[CHOOSE n \in 1..Len(SpecialTitle) : SpecialTitle[n][1] = c][2]
    ELSE << Mapped(c, ToTitleRuns) >>

\* A capital sigma at s[n] is final when the nearest character before it that
\* is not case-ignorable is cased, and the nearest such character after it, if
\* there is one, is not cased.
final_sigma(s, n) ==
    LET before == { j \in 1..(n - 1) : ~case_ignorable(s[j]) }
        after  == { j \in (n + 1)..Len(s) : ~case_ignorable(s[j]) }
    IN  /\ before # {}
        /\ cased(s[CHOOSE j \in before : \A m \in before : m <= j])
        /\ \/ after = {}
           \/ ~cased(s[CHOOSE j \in after : \A m \in after : j <= m])

\* The lower case of the character s[n] of the string s.
lower_ucs4(s, n) ==
    IF s[n] = 931
    THEN << IF final_sigma(s, n) THEN 962 ELSE 963 >>
    ELSE LowerChar(s[n])

\* The lower case of s from its n-th character on.
RECURSIVE lower_from(_, _)
lower_from(s, n) ==
    IF n > Len(s) THEN << >> ELSE lower_ucs4(s, n) \o lower_from(s, n + 1)

\* str.lower(): every cased character is mapped to its lower case.
lower(s) == lower_from(s, 1)

\* str.capitalize(): the first character in title case, the rest in lower
\* case.
capitalize(s) ==
    IF s = << >> THEN << >> ELSE TitleChar(s[1]) \o lower_from(s, 2)

startswith(s, p) == Len(s) >= Len(p) /\ SubSeq(s, 1, Len(p)) = p

\* Python's  p in s  for strings.
contains(s, p) ==
    \E n \in 0..(Len(s) - Len(p)) : SubSeq(s, n + 1, n + Len(p)) = p

\* str.split(sep) for a one-character separator: the list of the pieces.
RECURSIVE split(_, _)
split(s, sep) ==
    IF \A n \in 1..Len(s) : s[n] # sep
    THEN << s >>
    ELSE LET k == CHOOSE n \in 1..Len(s) :
                      s[n] = sep /\ \A m \in 1..(n - 1) : s[m] # sep
         IN  << SubSeq(s, 1, k - 1) >> \o split(SubSeq(s, k + 1, Len(s)), sep)

\* str.replace(old, new) for a one-character old.
RECURSIVE replace(_, _, _)
replace(s, old, new) ==
    IF s = << >> THEN << >>
    ELSE (IF Head(s) = old THEN new ELSE << Head(s) >>)
         \o replace(Tail(s), old, new)

\* str.lstrip(chars): leading characters that occur in chars are removed.
RECURSIVE lstrip(_, _)
lstrip(s, chars) ==
    IF s # << >> /\ Head(s) \in Range(chars) THEN lstrip(Tail(s), chars) ELSE s

\* Python's < on strings and on tuples of integers: lexicographic.
RECURSIVE SeqLess(_, _)
SeqLess(a, b) ==
    IF b = << >> THEN FALSE
    ELSE IF a = << >> THEN TRUE
    ELSE IF Head(a) # Head(b) THEN Head(a) < Head(b)
    ELSE SeqLess(Tail(a), Tail(b))

\* sorted(xs, key=...): a stable sort; << m, n >> \in less when the key of
\* xs[m] is less than the key of xs[n].
SortedBy(xs, less) ==
    LET rank(n) == Cardinality({ m \in 1..Len(xs) :
                       << m, n >> \in less \/ (<< n, m >> \notin less /\ m < n) }) + 1
    IN  [ r \in 1..Len(xs) |-> xs[CHOOSE n \in 1..Len(xs) : rank(n) = r] ]

\* sorted(set of strings)
RECURSIVE SortedSet(_)
SortedSet(S) ==
    IF S = {} THEN << >>
    ELSE LET m == CHOOSE x \in S : \A y \in S : y = x \/ SeqLess(x, y)
         IN  << m >> \o SortedSet(S \ {m})

\* Lookup in an ordered dict kept as a sequence of items with a key field.
HasKey(d, k) == \E n \in 1..Len(d) : d[n].key = k

Item(d, k) == d[CHOOSE n \in 1..Len(d) : d[n].key = k]

Keys(d) == [ n \in 1..Len(d) |-> d[n].key ]

-----------------------------------------------------------------------------
(* The input universe: readlex keys with their records, the WordNet cache  *)
(* and the definition files from which an input is drawn.                  *)

\* Latin spellings
Words ==
    [ colour |-> << 99, 111, 108, 111, 117, 114 >>,
      colours |-> << 99, 111, 108, 111, 117, 114, 115 >>,
      color |-> << 99, 111, 108, 111, 114 >>,
      colors |-> << 99, 111, 108, 111, 114, 115 >>,
      culler |-> << 99, 117, 108, 108, 101, 114 >>,
      tinge |-> << 116, 105, 110, 103, 101 >>,
      dew |-> << 100, 101, 119 >>,
      due |-> << 100, 117, 101 >>,
      bow |-> << 98, 111, 119 >>,
      bows |-> << 98, 111, 119, 115 >>,
      gizmo |-> << 103, 105, 122, 109, 111 >>,
      void |-> << 118, 111, 105, 100 >>,
      turkey |-> << 116, 117, 114, 107, 101, 121 >>,
      Turkey |-> << 84, 117, 114, 107, 101, 121 >>,
      read |-> << 114, 101, 97, 100 >>,
      red |-> << 114, 101, 100 >>,
      it |-> << 105, 116 >>,
      I |-> << 73 >>,
      Rome |-> << 82, 111, 109, 101 >>,
      Colour |-> << 67, 111, 108, 111, 117, 114 >>,
      like |-> << 108, 105, 107, 101 >>,
      gray |-> << 103, 114, 97, 121 >> ]

\* CLAWS part-of-speech tags
NN1 == << 78, 78, 49 >>
NN0 == << 78, 78, 48 >>
NN2 == << 78, 78, 50 >>
NP0 == << 78, 80, 48 >>
VVI == << 86, 86, 73 >>
VVD == << 86, 86, 68 >>
AJ0 == << 65, 74, 48 >>
PNP == << 80, 78, 80 >>
PRP == << 80, 82, 80 >>

\* Shavian spellings (code points of the Shavian block, U+10450 onwards)
Spellings ==
    [ colour |-> << 66642, 66675, 66660, 66684 >>,    \* kick-up-loll-array
      colours |-> << 66642, 66675, 66660, 66684, 66655 >>,    \* kick-up-loll-array-zoo
      tinge |-> << 66641, 66662, 66671, 66657 >>,    \* tot-if-nun-judge
      dew |-> << 66651, 66687 >>,    \* dead-yew: dew, and due in RP
      due_us |-> << 66651, 66677 >>,    \* dead-ooze: due in General American
      bow_tie |-> << 66650, 66676 >>,    \* bib-oak: bow as in bow tie
      bow_ship |-> << 66650, 66668 >>,    \* bib-out: bow of a ship
      bows_ship |-> << 66650, 66668, 66655 >>,    \* bib-out-zoo
      gizmo |-> << 66652, 66662, 66655, 66661, 66676 >>,
      void |-> << 66653, 66678, 66651 >>,
      turkey |-> << 66641, 66683, 66642, 66662 >>,
      bow_mark |-> << 8721, 66650, 66676 >>,
      reed |-> << 66670, 66672, 66651 >>,    \* roar-eat-dead: read, infinitive
      red |-> << 66670, 66663, 66651 >>,    \* roar-egg-dead: red, and read in the past tense
      it |-> << 66662, 66641 >>,    \* if-tot
      I |-> << 66674 >>,    \* ice
      rome |-> << 66670, 66676, 66661 >>,    \* roar-oak-mime
      like |-> << 66660, 66674, 66642 >>,    \* loll-ice-kick
      gray |-> << 66652, 66670, 66673 >> ]    \* gag-roar-age

\* IPA transcriptions; readlex writes R for an optional r
ipa_kR == << 107, 82 >>
ipa_none == << >>

\* Synset identifiers
Synsets ==
    [ colour_n |-> << 99, 45, 110 >>,    \* 'c-n'
      colour_v |-> << 99, 45, 118 >>,    \* 'c-v'
      culler_n |-> << 99, 117, 108, 45, 110 >>,    \* 'cul-n'
      dew_n |-> << 100, 119, 45, 110 >>,    \* 'dw-n'
      due_n |-> << 100, 117, 45, 110 >>,    \* 'du-n'
      fee_n |-> << 102, 101, 101, 45, 110 >>,    \* 'fee-n'
      due_a |-> << 100, 117, 45, 97 >>,    \* 'du-a'
      bow_n |-> << 98, 119, 45, 110 >>,    \* 'bw-n'
      prow_n |-> << 112, 114, 111, 119, 45, 110 >>,    \* 'prow-n'
      bow_v |-> << 98, 119, 45, 118 >>,    \* 'bw-v'
      read_v |-> << 114, 100, 45, 118 >>,    \* 'rd-v'
      red_a |-> << 114, 101, 45, 97 >>,    \* 're-a'
      like_v |-> << 108, 107, 45, 118 >>,    \* 'lk-v'
      like_p |-> << 108, 107, 45, 112 >>,    \* 'lk-p'
      gray_a |-> << 103, 114, 45, 97 >> ]    \* 'gr-a'

\* WordNet part-of-speech letters
p_n == << 110 >>
p_v == << 118 >>
p_a == << 97 >>
p_r == << 114 >>

\* A readlex key is written {lemma}_{pos}_{shavian}.
ReadlexKey(lemma, pos, shavian) == lemma \o << 95 >> \o pos \o << 95 >> \o shavian

\* One record of readlex.json.
Record(latn, pos, shaw, ipa, var) ==
    [ Latn |-> latn, pos |-> pos, Shaw |-> shaw, ipa |-> ipa, var |-> var ]

k_colour_n ==
    [ key |-> ReadlexKey(Words.colour, NN1, Spellings.colour),
      entries |-> << Record(Words.colour, NN1, Spellings.colour, ipa_kR, "RRP"),
                     Record(Words.colours, NN2, Spellings.colours, ipa_none, "RRP") >> ]

k_color_n ==
    [ key |-> ReadlexKey(Words.color, NN1, Spellings.colour),
      entries |-> << Record(Words.color, NN1, Spellings.colour, ipa_kR, "GenAm"),
                     Record(Words.colors, NN2, Spellings.colours, ipa_none, "GenAm") >> ]

k_colour_v ==
    [ key |-> ReadlexKey(Words.colour, VVI, Spellings.colour),
      entries |-> << Record(Words.colour, VVI, Spellings.colour, ipa_kR, "RRP") >> ]

k_color_v ==
    [ key |-> ReadlexKey(Words.color, VVI, Spellings.colour),
      entries |-> << Record(Words.color, VVI, Spellings.colour, ipa_kR, "GenAm") >> ]

\* tinge shares the noun sense of colour in the cache below (a synonym).
k_tinge_n ==
    [ key |-> ReadlexKey(Words.tinge, NN1, Spellings.tinge),
      entries |-> << Record(Words.tinge, NN1, Spellings.tinge, ipa_none, "RRP") >> ]

\* culler (one who culls) is spelled like colour in Shavian.
k_culler ==
    [ key |-> ReadlexKey(Words.culler, NN1, Spellings.colour),
      entries |-> << Record(Words.culler, NN1, Spellings.colour, ipa_kR, "RRP") >> ]

k_dew ==
    [ key |-> ReadlexKey(Words.dew, NN1, Spellings.dew),
      entries |-> << Record(Words.dew, NN1, Spellings.dew, ipa_none, "RRP") >> ]

\* due is a homophone of dew in RP and has a second pronunciation.
k_due ==
    [ key |-> ReadlexKey(Words.due, NN1, Spellings.dew),
      entries |-> << Record(Words.due, NN1, Spellings.dew, ipa_none, "RRP"),
                     Record(Words.due, NN1, Spellings.due_us, ipa_none, "GenAm") >> ]

\* colour under a second noun tag, with the plural that k_colour_n has too.
k_colour_nn0 ==
    [ key |-> ReadlexKey(Words.colour, NN0, Spellings.colour),
      entries |-> << Record(Words.colour, NN0, Spellings.colour, ipa_none, "RRP"),
                     Record(Words.colours, NN2, Spellings.colours, ipa_none, "RRP") >> ]

\* due under its American pronunciation, with a record that k_due has too.
k_due_us ==
    [ key |-> ReadlexKey(Words.due, NN1, Spellings.due_us),
      entries |-> << Record(Words.due, NN1, Spellings.due_us, ipa_none, "GenAm") >> ]

\* A word the WordNet cache does not know; the Latin definitions define it.
k_gizmo ==
    [ key |-> ReadlexKey(Words.gizmo, NN1, Spellings.gizmo),
      entries |-> << Record(Words.gizmo, NN1, Spellings.gizmo, ipa_none, "RRP") >> ]

\* A key with no records.
k_void ==
    [ key |-> ReadlexKey(Words.void, NN1, Spellings.void),
      entries |-> << >> ]

\* turkey the bird under two tags and Turkey the country, spelled alike.
k_turkey_n ==
    [ key |-> ReadlexKey(Words.turkey, NN1, Spellings.turkey),
      entries |-> << Record(Words.turkey, NN1, Spellings.turkey, ipa_none, "RRP") >> ]

k_turkey_nn0 ==
    [ key |-> ReadlexKey(Words.turkey, NN0, Spellings.turkey),
      entries |-> << Record(Words.turkey, NN0, Spellings.turkey, ipa_none, "RRP") >> ]

k_Turkey ==
    [ key |-> ReadlexKey(Words.Turkey, NP0, Spellings.turkey),
      entries |-> << Record(Words.Turkey, NP0, Spellings.turkey, ipa_none, "RRP") >> ]

\* bow with a spelling that begins with a character index_sort_key strips.
k_bow_mark ==
    [ key |-> ReadlexKey(Words.bow, NN1, Spellings.bow_mark),
      entries |-> << Record(Words.bow, NN1, Spellings.bow_mark, ipa_none, "RRP") >> ]

\* bow: one lemma and part of speech, two pronunciations (heteronyms).
k_bow_tie ==
    [ key |-> ReadlexKey(Words.bow, NN1, Spellings.bow_tie),
      entries |-> << Record(Words.bow, NN1, Spellings.bow_tie, ipa_none, "RRP") >> ]

k_bow_ship ==
    [ key |-> ReadlexKey(Words.bow, NN1, Spellings.bow_ship),
      entries |-> << Record(Words.bow, NN1, Spellings.bow_ship, ipa_none, "RRP"),
                     Record(Words.bows, NN2, Spellings.bows_ship, ipa_none, "RRP") >> ]

\* read: the past tense is spelled like red in Shavian.
k_read ==
    [ key |-> ReadlexKey(Words.read, VVI, Spellings.reed),
      entries |-> << Record(Words.read, VVI, Spellings.reed, ipa_none, "RRP"),
                     Record(Words.read, VVD, Spellings.red, ipa_none, "RRP") >> ]

k_red ==
    [ key |-> ReadlexKey(Words.red, AJ0, Spellings.red),
      entries |-> << Record(Words.red, AJ0, Spellings.red, ipa_none, "RRP") >> ]

\* red as a noun: the sense data has the word as an adjective only.
k_red_n ==
    [ key |-> ReadlexKey(Words.red, NN1, Spellings.red),
      entries |-> << Record(Words.red, NN1, Spellings.red, ipa_none, "RRP") >> ]

\* a pronoun: its tag maps to no WordNet part of speech.
k_it ==
    [ key |-> ReadlexKey(Words.it, PNP, Spellings.it),
      entries |-> << Record(Words.it, PNP, Spellings.it, ipa_none, "RRP") >> ]

\* a pronoun that is written with a capital letter.
k_I ==
    [ key |-> ReadlexKey(Words.I, PNP, Spellings.I),
      entries |-> << Record(Words.I, PNP, Spellings.I, ipa_none, "RRP") >> ]

\* a proper noun.
k_rome ==
    [ key |-> ReadlexKey(Words.Rome, NP0, Spellings.rome),
      entries |-> << Record(Words.Rome, NP0, Spellings.rome, ipa_none, "RRP") >> ]

\* due with a noun record and an adjective record under one key.
k_due_mixed ==
    [ key |-> ReadlexKey(Words.due, AJ0, Spellings.dew),
      entries |-> << Record(Words.due, NN1, Spellings.dew, ipa_none, "RRP"),
                     Record(Words.due, AJ0, Spellings.dew, ipa_none, "RRP") >> ]

\* due under a key whose spelling none of its records has.
k_due_nn0 ==
    [ key |-> ReadlexKey(Words.due, NN0, Spellings.dew),
      entries |-> << Record(Words.due, NN0, Spellings.due_us, ipa_none, "GenAm") >> ]

\* like as a preposition and as a verb under one key.
k_like ==
    [ key |-> ReadlexKey(Words.like, PRP, Spellings.like),
      entries |-> << Record(Words.like, PRP, Spellings.like, ipa_none, "RRP"),
                     Record(Words.like, VVI, Spellings.like, ipa_none, "RRP") >> ]

\* gray: a spelling for which the sense lists no British spelling at all.
k_gray ==
    [ key |-> ReadlexKey(Words.gray, AJ0, Spellings.gray),
      entries |-> << Record(Words.gray, AJ0, Spellings.gray, ipa_none, "GenAm") >> ]

\* colour written with a capital letter.
k_Colour_n ==
    [ key |-> ReadlexKey(Words.Colour, NN1, Spellings.colour),
      entries |-> << Record(Words.Colour, NN1, Spellings.colour, ipa_kR, "RRP") >> ]

\* One sense of a lemma in the WordNet cache.
Sense(synset, variants, defs) ==
    [ synset |-> synset, variants |-> variants, definitions |-> defs ]

\* The dialect -> spellings mapping of the colour/color senses, and of a
\* sense without dialect variants.
ColourVariants == ("US" :> << Words.color >>) @@ ("GB" :> << Words.colour >>)

NoVariants == << >>

\* A sense that lists the British dialect with no spelling.
GrayVariants == ("US" :> << Words.gray >>) @@ ("GB" :> << >>)

ColourPosEntries ==
    << [ pos |-> p_n, sense_variants |->
           << Sense(Synsets.colour_n, ColourVariants, << "a visual attribute" >>) >> ],
       [ pos |-> p_v, sense_variants |->
           << Sense(Synsets.colour_v, ColourVariants, << "add color to" >>) >> ] >>

\* wordnet-comprehensive.json: lemma -> { dialect, pos_entries }, pos_entries
\* being the list of its items (pos, { sense_variants }) in file order.
WordnetCache ==
    (Words.color :> [ dialect |-> "US", pos_entries |-> ColourPosEntries ])
 @@ (Words.colour :> [ dialect |-> "GB", pos_entries |-> ColourPosEntries ])
 @@ (Words.tinge :> [ dialect |-> "None", pos_entries |->
       << [ pos |-> p_n, sense_variants |->
              << Sense(Synsets.colour_n, NoVariants, << "a pale or subdued color" >>) >> ] >> ])
 @@ (Words.culler :> [ dialect |-> "None", pos_entries |->
       << [ pos |-> p_n, sense_variants |->
              << Sense(Synsets.culler_n, NoVariants, << "one who culls" >>) >> ] >> ])
 @@ (Words.dew :> [ dialect |-> "None", pos_entries |->
       << [ pos |-> p_n, sense_variants |->
              << Sense(Synsets.dew_n, NoVariants, << "water condensed on a cool surface" >>) >> ] >> ])
 @@ (Words.due :> [ dialect |-> "None", pos_entries |->
       << [ pos |-> p_n, sense_variants |->
              << Sense(Synsets.due_n, NoVariants, << "that which is deserved or owed" >>),
                 Sense(Synsets.fee_n, NoVariants, << "a payment that is due" >>) >> ],
          [ pos |-> p_a, sense_variants |->
              << Sense(Synsets.due_a, NoVariants, << "owed and payable" >>) >> ] >> ])
 @@ (Words.bow :> [ dialect |-> "None", pos_entries |->
       << [ pos |-> p_n, sense_variants |->
              << Sense(Synsets.bow_n, NoVariants, << "a knot with two loops" >>),
                 Sense(Synsets.prow_n, NoVariants, << "front part of a vessel" >>) >> ],
          [ pos |-> p_v, sense_variants |->
              << Sense(Synsets.bow_v, NoVariants, << "bend the head" >>) >> ] >> ])
 @@ (Words.read :> [ dialect |-> "None", pos_entries |->
       << [ pos |-> p_v, sense_variants |->
              << Sense(Synsets.read_v, NoVariants, << "interpret something written" >>) >> ] >> ])
 @@ (Words.red :> [ dialect |-> "None", pos_entries |->
       << [ pos |-> p_a, sense_variants |->
              << Sense(Synsets.red_a, NoVariants, << "of the color of blood" >>) >> ] >> ])
 @@ (Words.like :> [ dialect |-> "None", pos_entries |->
       << [ pos |-> p_v, sense_variants |->
              << Sense(Synsets.like_v, NoVariants, << "find enjoyable" >>) >> ],
          [ pos |-> << 112 >>, sense_variants |->
              << Sense(Synsets.like_p, NoVariants, << "similar to" >>) >> ] >> ])
 @@ (Words.gray :> [ dialect |-> "US", pos_entries |->
       << [ pos |-> p_a, sense_variants |->
              << Sense(Synsets.gray_a, GrayVariants, << "of an achromatic color" >>) >> ] >> ])

\* The key "lemma|synset" of the Shavian definition cache.
CacheKey(lemma, synset_id) == lemma \o << 124 >> \o synset_id

TransDef(lemma, synset_id, text, pos) ==
    CacheKey(lemma, synset_id) :>
        [ transliterated_definition |-> text, transliterated_pos |-> pos,
          transliterated_examples |-> << >>, pos |-> pos ]

\* definitions-shavian-{dialect}.json; red has no transliterated definition.
ShavianDefinitions ==
    TransDef(Words.colour, Synsets.colour_n, "shavian: a visual attribute", "shavian: noun")
 @@ TransDef(Words.colour, Synsets.colour_v, "shavian: add color to", "shavian: verb")
 @@ TransDef(Words.color, Synsets.colour_n, "shavian: a visual attribute", "shavian: noun")
 @@ TransDef(Words.color, Synsets.colour_v, "shavian: add color to", "shavian: verb")
 @@ TransDef(Words.tinge, Synsets.colour_n, "shavian: a pale or subdued color", "shavian: noun")
 @@ TransDef(Words.dew, Synsets.dew_n, "shavian: water condensed", "shavian: noun")
 @@ TransDef(Words.due, Synsets.due_n, "shavian: that which is owed", "shavian: noun")
 @@ TransDef(Words.due, Synsets.fee_n, "shavian: a payment that is due", "shavian: noun")
 @@ TransDef(Words.bow, Synsets.bow_n, "shavian: a knot with two loops", "shavian: noun")
 @@ TransDef(Words.bow, Synsets.prow_n, "shavian: front part of a vessel", "shavian: noun")
 @@ TransDef(Words.read, Synsets.read_v, "shavian: interpret something written", "shavian: verb")
 @@ TransDef(Words.like, Synsets.like_v, "shavian: find enjoyable", "shavian: verb")
 @@ TransDef(Words.like, Synsets.like_p, "shavian: similar to", "shavian: preposition")
 @@ TransDef(Words.gray, Synsets.gray_a, "shavian: of an achromatic color", "shavian: adjective")

\* definitions-latin-{dialect}.json: lemma -> list of { definition, pos }.
LatinDefinitions ==
    (Words.gizmo :> << [ definition |-> "a device", pos |-> p_n ] >>)
 @@ (Words.it :> << [ definition |-> "the thing named", pos |-> p_n ] >>)
 @@ (lower(Words.Rome) :> << [ definition |-> "capital of Italy", pos |-> p_n ] >>)

\* The readlex keys of the general specification and of the colour family.
GeneralKeys ==
    { k_colour_n, k_color_n, k_tinge_n, k_dew, k_due, k_bow_tie, k_bow_ship,
      k_read, k_red, k_it, k_rome, k_gizmo, k_void }

ColourKeys == { k_colour_n, k_color_n, k_colour_v, k_color_v }

\* Words spelled alike in Shavian: dew and due, colour and culler.
HomographKeys == { k_dew, k_due, k_colour_n, k_color_n, k_culler }

\* Two pronunciations of bow beside the two spellings of colour.
HeteronymKeys == { k_bow_tie, k_bow_ship, k_colour_n, k_color_n }

\* Entries that share a bucket: with the same sort key, with and without a
\* part of speech, and with different lemmas.
BucketKeys == { k_turkey_n, k_turkey_nn0, k_Turkey, k_dew, k_due }

\* Spellings with capital letters beside a verb with an inflected form.
CaseKeys == { k_I, k_rome, k_read }

\* Keys with the same signature that have a record in common.
RecordKeys == { k_colour_n, k_colour_nn0, k_due, k_due_us }

\* Keys for which the sense data has no sense.
SenselessKeys == { k_gizmo, k_red_n, k_it, k_rome }

\* Keys whose records give two part-of-speech codes, a key without a
\* lemma-bearing record, a spelling of a sense without a home spelling and
\* a key without a part-of-speech code.
SignatureKeys == { k_due_mixed, k_like, k_gray, k_due_nn0, k_it }

\* One sense under three lemmas, one of them written in two letter cases.
LetterCaseKeys == { k_Colour_n, k_colour_n, k_color_n, k_tinge_n }

\* Two words spelled alike in Shavian, one of them under a key that none of
\* its records is spelled as.
LemmalessKeys == { k_dew, k_due_nn0 }

Families ==
    { ColourKeys, HomographKeys, HeteronymKeys, BucketKeys, CaseKeys,
      SenselessKeys, RecordKeys }

\* The families for the derivation of signatures and of home entries.
SenseFamilies == { SignatureKeys, LetterCaseKeys, LemmalessKeys }

\* The keys of the builds that are repeated within and across processes.
ProcessKeys == { k_colour_n, k_color_n, k_bow_tie, k_bow_mark }

\* The readlex files with at most n keys of U: every choice and every order.
ReadlexFiles(U, n) ==
    UNION { { f \in [1..k -> U] : \A a, b \in 1..k : a # b => f[a] # f[b] }
            : k \in 0..n }

-----------------------------------------------------------------------------
(* Helper functions of generate_dictionaries.py *)

\* Python truthiness of a string or None:  if x
Truthy(x) == x # None /\ x # << >>

Concat(ss) ==
    LET RECURSIVE cat(_)
        cat(n) == IF n > Len(ss) THEN << >> ELSE ss[n] \o cat(n + 1)
    IN  cat(1)

\* The elements of xs without repetition, in order of first occurrence.
Unique(xs) ==
    LET first(n) == \A m \in 1..(n - 1) : xs[m] # xs[n]
        idx == { n \in 1..Len(xs) : first(n) }
        RECURSIVE pick(_)
        pick(n) == IF n > Len(xs) THEN << >>
                   ELSE (IF n \in idx THEN << xs[n] >> ELSE << >>) \o pick(n + 1)
    IN  pick(1)

extract_lemma_from_key(key) ==
    LET parts == split(key, 95)
    IN  IF Len(parts) >= 1 THEN lower(parts[1]) ELSE None

extract_lemma_shavian_from_key(key) ==
    LET parts == split(key, 95)
    IN  IF Len(parts) >= 3 THEN parts[3] ELSE None

is_proper_noun(pos_code) ==
    IF pos_code = << >> THEN FALSE ELSE contains(pos_code, NP0)

capitalize_if_proper_noun(text, pos_code) ==
    IF is_proper_noun(pos_code) THEN capitalize(text) ELSE text

\* The namer dot as the source file spells it: the two characters U+00AC and
\* U+2211 (its comment names U+00B7 MIDDLE DOT).
namer_dot == << 172, 8721 >>

add_namer_dot_if_proper_noun(text, pos_code) ==
    IF is_proper_noun(pos_code) /\ ~startswith(text, namer_dot)
    THEN namer_dot \o text
    ELSE text

normalize_readlex_ipa(ipa) ==
    IF ipa = << >> THEN ipa ELSE replace(ipa, 82, << 40, 114, 41 >>)

\* One item of the dict built by process_readlex_with_lemmas.
process_readlex_item(key, entries) ==
    LET lemma0 == extract_lemma_from_key(key)
        lemma  == IF ~Truthy(lemma0) /\ entries # << >>
                  THEN lower(entries[1].Latn) ELSE lemma0
        shav0  == extract_lemma_shavian_from_key(key)
        shav   == IF ~Truthy(shav0) /\ entries # << >>
                  THEN entries[1].Shaw ELSE shav0
    IN  [ key |-> key, lemma |-> lemma, canonical_shavian |-> shav,
          entries |-> entries ]

process_readlex_with_lemmas(raw) ==
    [ n \in 1..Len(raw) |-> process_readlex_item(raw[n].key, raw[n].entries) ]

\* detect_spelling_variant_with_cache without the memo: the cache's dialect.
spelling_variant_lookup(word, cache) ==
    IF lower(word) \notin DOMAIN cache THEN "None"
    ELSE cache[lower(word)].dialect

\* detect_spelling_variant_with_cache: the memo answers first.
detect_spelling_variant_with_cache(word, memo, cache) ==
    IF word \in DOMAIN memo THEN memo[word]
    ELSE spelling_variant_lookup(word, cache)

\* pos_entries.get(pos, {}).get('sense_variants', [])
sense_variants_of(entry, pos) ==
    IF \E n \in 1..Len(entry.pos_entries) : entry.pos_entries[n].pos = pos
    THEN entry.pos_entries[CHOOSE n \in 1..Len(entry.pos_entries) :
                               entry.pos_entries[n].pos = pos].sense_variants
    ELSE << >>

\* All senses of a cache entry, across its parts of speech, in file order.
all_senses(entry) ==
    Concat([ n \in 1..Len(entry.pos_entries) |-> entry.pos_entries[n].sense_variants ])

get_synsets_from_cache(lemma, pos_filter, cache) ==
    IF lower(lemma) \notin DOMAIN cache THEN << >>
    ELSE LET senses == sense_variants_of(cache[lower(lemma)], pos_filter)
             ids    == [ n \in 1..Len(senses) |-> senses[n].synset ]
         IN  SelectSeq(ids, Truthy)

get_definitions_from_cache(lemma, cache) ==
    IF lower(lemma) \notin DOMAIN cache THEN << >>
    ELSE LET pes == cache[lower(lemma)].pos_entries
             of_sense(pos, sense) ==
                 [ d \in 1..Len(sense.definitions) |->
                     [ definition |-> sense.definitions[d], pos |-> pos ] ]
             of_pos(pe) ==
                 Concat([ n \in 1..Len(pe.sense_variants) |->
                            of_sense(pe.pos, pe.sense_variants[n]) ])
         IN  Concat([ n \in 1..Len(pes) |-> of_pos(pes[n]) ])

\* A classifier that takes every lemma for a home spelling.
is_foreign_dialect_lemma_never(lemma, synset_id, home_dialect, cache) ==
    FALSE

\* True when the sense lists spellings for the home dialect and the lemma is
\* not one of them.
is_foreign_dialect_lemma(lemma, synset_id, home_dialect, cache) ==
    IF DOMAIN cache = {} \/ ~Truthy(synset_id) THEN FALSE
    ELSE IF lower(lemma) \notin DOMAIN cache THEN FALSE
    ELSE LET senses == all_senses(cache[lower(lemma)])
         IN  \E n \in 1..Len(senses) :
                 /\ senses[n].synset = synset_id
                 /\ home_dialect \in DOMAIN senses[n].variants
                 /\ lower(lemma) \notin Range(senses[n].variants[home_dialect])

\* The WordNet letters of the tags of a key, as the definition lookup maps them.
key_pos_letter(pos_code) ==
    IF startswith(pos_code, << 86 >>) THEN { p_v }
    ELSE IF startswith(pos_code, << 78 >>) /\ ~is_proper_noun(pos_code) THEN { p_n }
    ELSE IF startswith(pos_code, << 65, 74 >>) THEN { p_a }
    ELSE IF startswith(pos_code, << 65, 86 >>) THEN { p_r }
    ELSE {}

key_pos_set(entries) ==
    UNION { key_pos_letter(entries[n].pos) : n \in 1..Len(entries) }

\* The letters of the tags of an entry's forms, as the signature pass maps them.
pos_letter(pos_code) ==
    IF startswith(pos_code, << 86 >>) THEN { p_v }
    ELSE IF startswith(pos_code, << 78 >>) /\ ~is_proper_noun(pos_code) THEN { p_n }
    ELSE IF startswith(pos_code, << 65, 74 >>) THEN { p_a }
    ELSE IF startswith(pos_code, << 65, 86 >>) THEN { p_r }
    ELSE IF startswith(pos_code, << 80, 82, 80 >>) THEN { << 112 >> }
    ELSE IF startswith(pos_code, << 73, 84, 74 >>) THEN { << 105 >> }
    ELSE IF startswith(pos_code, << 67, 74 >>) THEN { << 99 >> }
    ELSE {}

\* pos_tuple_of with the codes in descending order.
pos_tuple_of_descending(forms) ==
    LET codes == SortedSet(UNION { pos_letter(forms[n].pos) : n \in 1..Len(forms) })
    IN  [ n \in 1..Len(codes) |-> codes[Len(codes) + 1 - n] ]

pos_tuple_of(forms) ==
    SortedSet(UNION { pos_letter(forms[n].pos) : n \in 1..Len(forms) })

-----------------------------------------------------------------------------
(* Configuration of generate_dictionary *)

DictTypes == { "shaw-eng", "eng-shaw", "shaw-shaw" }

index_key(dt) == IF dt = "eng-shaw" THEN "latn" ELSE "shaw"

use_shavian_cache(dt) == dt # "shaw-eng"

preferred_var(d) == IF d = "gb" THEN "RRP" ELSE "GenAm"

home_dialect(d) == IF preferred_var(d) = "RRP" THEN "GB" ELSE "US"

-----------------------------------------------------------------------------
(* generate_dictionary, first loop: one readlex key -> forms and definitions *)

\* Definitions of a key from the Shavian cache: one lookup per synset of
\* (lemma, smallest letter of key_pos_set).
shavian_cache_defs(lemma, entries, dt, defs, cache) ==
    LET kps     == key_pos_set(entries)
        synsets == IF DOMAIN cache # {} /\ kps # {}
                   THEN get_synsets_from_cache(lemma, SortedSet(kps)[1], cache)
                   ELSE << >>
        hit(n)  == CacheKey(lemma, synsets[n]) \in DOMAIN defs
        one(n)  ==
            LET trans_def == defs[CacheKey(lemma, synsets[n])]
            IN  << [ definition |-> trans_def.transliterated_definition,
                     pos |-> IF dt \in { "shaw-shaw", "eng-shaw" }
                             THEN trans_def.transliterated_pos
                             ELSE trans_def.pos,
                     examples |-> trans_def.transliterated_examples ] >>
    IN  Concat([ n \in 1..Len(synsets) |-> IF hit(n) THEN one(n) ELSE << >> ])

\* Definitions of a key from the WordNet cache or the Latin definitions,
\* filtered by the parts of speech of the key.
latin_defs(lemma, entries, defs, cache) ==
    LET from_cache == IF DOMAIN cache # {}
                      THEN get_definitions_from_cache(lemma, cache)
                      ELSE << >>
        lemma_defs == IF from_cache # << >> THEN from_cache
                      ELSE IF lemma \in DOMAIN defs THEN defs[lemma]
                      ELSE << >>
        kps        == key_pos_set(entries)
        keep(d)    == d.pos \in kps
    IN  SelectSeq(lemma_defs, keep)

filtered_defs(lemma, entries, dt, defs, cache) ==
    IF use_shavian_cache(dt)
    THEN shavian_cache_defs(lemma, entries, dt, defs, cache)
    ELSE latin_defs(lemma, entries, defs, cache)

\* form_info of one record.
form_info(entry, canonical_shavian, d, memo, cache) ==
    [ shaw |-> entry.Shaw,
      latn |-> entry.Latn,
      pos |-> entry.pos,
      ipa |-> normalize_readlex_ipa(entry.ipa),
      var |-> entry.var,
      spelling_variant |-> detect_spelling_variant_with_cache(entry.Latn, memo, cache),
      is_lemma |-> (entry.Shaw = canonical_shavian),
      is_preferred |-> (entry.var = preferred_var(d)) ]

\* The forms of a key; the memo grows with each record looked up.
RECURSIVE build_forms(_, _, _, _, _)
build_forms(entries, canonical_shavian, d, memo, cache) ==
    IF entries = << >> THEN [ forms |-> << >>, memo |-> memo ]
    ELSE LET f    == form_info(Head(entries), canonical_shavian, d, memo, cache)
             m1   == IF f.latn \in DOMAIN memo THEN memo
                     ELSE memo @@ (f.latn :> f.spelling_variant)
             rest == build_forms(Tail(entries), canonical_shavian, d, m1, cache)
         IN  [ forms |-> << f >> \o rest.forms, memo |-> rest.memo ]

-----------------------------------------------------------------------------
(* generate_dictionary, second loop: the signature of a key *)

\* lemma = data.get('lemma', key.split('_')[0]); the items of readlex_entries
\* have no 'lemma', so the default is what the code uses.
signature_lemma(key) == split(key, 95)[1]

first_synset_list(key, forms, cache) ==
    LET pos_tuple == pos_tuple_of(forms)
    IN  IF DOMAIN cache # {} /\ pos_tuple # << >>
        THEN get_synsets_from_cache(signature_lemma(key), pos_tuple[1], cache)
        ELSE << >>

\* entry_signature when a key without a sense is signed with its lemma.
entry_signature_by_lemma(key, forms, d, cache) ==
    LET lemma      == signature_lemma(key)
        synsets    == first_synset_list(key, forms, cache)
        is_foreign == /\ synsets # << >>
                      /\ is_foreign_dialect_lemma(lemma, synsets[1], home_dialect(d), cache)
    IN  IF is_foreign THEN << "foreign", lemma, synsets[1] >>
        ELSE IF synsets # << >> THEN << "synset", lemma, synsets[1] >>
        ELSE << "readlex", lemma >>

entry_signature(key, forms, d, cache) ==
    LET lemma      == signature_lemma(key)
        synsets    == first_synset_list(key, forms, cache)
        is_foreign == /\ synsets # << >>
                      /\ is_foreign_dialect_lemma(lemma, synsets[1], home_dialect(d), cache)
    IN  IF is_foreign THEN << "foreign", lemma, synsets[1] >>
        ELSE IF synsets # << >> THEN << "synset", lemma, synsets[1] >>
        ELSE << "readlex", key >>

-----------------------------------------------------------------------------
(* The build as a state machine *)

Init ==
    /\ pc = "process_readlex"
    /\ i = 1
    /\ dialect \in { "gb", "us" }
    /\ dict_type \in DictTypes
    /\ wordnet_cache = WordnetCache
    /\ definitions = IF use_shavian_cache(dict_type)
                     THEN ShavianDefinitions ELSE LatinDefinitions
    /\ readlex_raw \in ReadlexFiles(GeneralKeys, MaxKeys)
    /\ readlex_data = << >>
    /\ spelling_variant_cache = << >>
    /\ readlex_entries = << >>
    /\ entry_signatures = << >>
    /\ entry_pos = << >>
    /\ merged_entries = << >>
    /\ variant_map = << >>
    /\ signature_to_key = << >>
    /\ foreign_to_home = << >>
    /\ index_to_entries = << >>
    /\ written = << >>
    /\ process = 1
    /\ completed = << >>

\* The same build on a readlex file drawn from one word family.
InitFamily ==
    /\ pc = "process_readlex"
    /\ i = 1
    /\ dialect \in { "gb", "us" }
    /\ dict_type \in DictTypes
    /\ wordnet_cache = WordnetCache
    /\ definitions = IF use_shavian_cache(dict_type)
                     THEN ShavianDefinitions ELSE LatinDefinitions
    /\ readlex_raw \in UNION { ReadlexFiles(F, MaxFamilyKeys) : F \in Families }
    /\ readlex_data = << >>
    /\ spelling_variant_cache = << >>
    /\ readlex_entries = << >>
    /\ entry_signatures = << >>
    /\ entry_pos = << >>
    /\ merged_entries = << >>
    /\ variant_map = << >>
    /\ signature_to_key = << >>
    /\ foreign_to_home = << >>
    /\ index_to_entries = << >>
    /\ written = << >>
    /\ process = 1
    /\ completed = << >>

\* The same build on a readlex file drawn from one of the sense families.
InitSense ==
    /\ pc = "process_readlex"
    /\ i = 1
    /\ dialect \in { "gb", "us" }
    /\ dict_type \in DictTypes
    /\ wordnet_cache = WordnetCache
    /\ definitions = IF use_shavian_cache(dict_type)
                     THEN ShavianDefinitions ELSE LatinDefinitions
    /\ readlex_raw \in UNION { ReadlexFiles(F, MaxFamilyKeys) : F \in SenseFamilies }
    /\ readlex_data = << >>
    /\ spelling_variant_cache = << >>
    /\ readlex_entries = << >>
    /\ entry_signatures = << >>
    /\ entry_pos = << >>
    /\ merged_entries = << >>
    /\ variant_map = << >>
    /\ signature_to_key = << >>
    /\ foreign_to_home = << >>
    /\ index_to_entries = << >>
    /\ written = << >>
    /\ process = 1
    /\ completed = << >>

inputs == << dialect, dict_type, wordnet_cache, definitions, readlex_raw >>

\* What the calls of generate_dictionary so far have left behind.
history == << process, completed >>

\* main(): readlex_data = process_readlex_with_lemmas(readlex_raw)
ProcessReadlex ==
    /\ pc = "process_readlex"
    /\ readlex_data' = process_readlex_with_lemmas(readlex_raw)
    /\ pc' = "build_entries"
    /\ i' = 1
    /\ UNCHANGED << inputs, history, spelling_variant_cache, readlex_entries,
                    entry_signatures, entry_pos, merged_entries, variant_map,
                    signature_to_key, foreign_to_home, index_to_entries, written >>

\* for key, data in readlex_data.items(): ... readlex_entries[key] = {...}
BuildEntry ==
    /\ pc = "build_entries"
    /\ i <= Len(readlex_data)
    /\ LET data  == readlex_data[i]
           built == build_forms(data.entries, data.canonical_shavian, dialect,
                                spelling_variant_cache, wordnet_cache)
       IN  /\ readlex_entries' = Append(readlex_entries,
                  [ key |-> data.key,
                    forms |-> built.forms,
                    definitions |-> filtered_defs(data.lemma, data.entries, dict_type,
                                                  definitions, wordnet_cache),
                    canonical_shavian |-> data.canonical_shavian ])
           /\ spelling_variant_cache' = built.memo
    /\ i' = i + 1
    /\ UNCHANGED << pc, inputs, history, readlex_data, entry_signatures, entry_pos,
                    merged_entries, variant_map, signature_to_key,
                    foreign_to_home, index_to_entries, written >>

\* for key, data in readlex_entries.items(): ... entry_signatures[key] = ...
AssignSignature ==
    /\ pc = "signatures"
    /\ i <= Len(readlex_entries)
    /\ LET data == readlex_entries[i]
       IN  /\ entry_pos' = entry_pos @@ (data.key :> pos_tuple_of(data.forms))
           /\ entry_signatures' = Append(entry_signatures,
                  [ key |-> data.key,
                    sig |-> entry_signature(data.key, data.forms, dialect,
                                            wordnet_cache) ])
    /\ i' = i + 1
    /\ UNCHANGED << pc, inputs, history, readlex_data, spelling_variant_cache,
                    readlex_entries, merged_entries, variant_map,
                    signature_to_key, foreign_to_home, index_to_entries, written >>

-----------------------------------------------------------------------------
(* generate_dictionary, third loop: the merge pass *)

NoSignature == << "none" >>

\* The first signature of entry_signatures, in insertion order, that is a
\* 'synset' signature with this synset id; NoSignature when there is none.
home_signature_of(synset_id, sigs) ==
    LET homes == { n \in 1..Len(sigs) :
                       sigs[n].sig[1] = "synset" /\ sigs[n].sig[3] = synset_id }
    IN  IF homes = {} THEN NoSignature
        ELSE sigs[CHOOSE n \in homes : \A m \in homes : n <= m].sig

\* The forms of the item with this key replaced where they are to be extended.
extend_forms_overwrite(items, key, forms) ==
    [ n \in 1..Len(items) |->
        IF items[n].key = key
        THEN [ items[n] EXCEPT !.forms = forms ]
        ELSE items[n] ]

\* extend_forms with the new forms put in front of those of the entry.
extend_forms_in_front(items, key, forms) ==
    [ n \in 1..Len(items) |->
        IF items[n].key = key
        THEN [ items[n] EXCEPT !.forms = forms \o @ ]
        ELSE items[n] ]

\* list.extend on the forms of the item with this key.
extend_forms(items, key, forms) ==
    [ n \in 1..Len(items) |->
        IF items[n].key = key
        THEN [ items[n] EXCEPT !.forms = @ \o forms ]
        ELSE items[n] ]

\* A foreign key given an entry of its own, like a key with a new signature.
MergeForeign_as_entry(key, sig) ==
    /\ merged_entries' = Append(merged_entries, Item(readlex_entries, key))
    /\ variant_map' = variant_map @@ (key :> key)
    /\ signature_to_key' = signature_to_key @@ (sig :> key)
    /\ UNCHANGED << readlex_data, readlex_entries, foreign_to_home >>

\* A foreign key: recorded in foreign_to_home when the home signature found
\* already has a canonical key, and passed over otherwise.
MergeForeign(key, sig) ==
    LET home_signature == home_signature_of(sig[3], entry_signatures)
    IN  /\ foreign_to_home' =
               IF home_signature # NoSignature
                  /\ home_signature \in DOMAIN signature_to_key
               THEN foreign_to_home @@ (key :> signature_to_key[home_signature])
               ELSE foreign_to_home
        /\ UNCHANGED << readlex_data, readlex_entries, merged_entries,
                        variant_map, signature_to_key >>

\* MergeExisting when the forms list of an entry is the record list of its
\* key in readlex_data: the extension then shows in the input too.
MergeExisting_extending_input(key, sig, data) ==
    LET existing_key == signature_to_key[sig]
    IN  /\ merged_entries' = extend_forms(merged_entries, existing_key, data.forms)
        /\ readlex_entries' = extend_forms(readlex_entries, existing_key, data.forms)
        /\ readlex_data' =
               [ n \in 1..Len(readlex_data) |->
                   IF readlex_data[n].key = existing_key
                   THEN [ readlex_data[n] EXCEPT
                              !.entries = @ \o Item(readlex_data, key).entries ]
                   ELSE readlex_data[n] ]
        /\ variant_map' = variant_map @@ (key :> existing_key)
        /\ UNCHANGED << signature_to_key, foreign_to_home >>

\* MergeExisting when the key merged last becomes the canonical key of the
\* signature.
MergeExisting_last_wins(key, sig, data) ==
    LET existing_key == signature_to_key[sig]
    IN  /\ merged_entries' = extend_forms(merged_entries, existing_key, data.forms)
        /\ readlex_entries' = extend_forms(readlex_entries, existing_key, data.forms)
        /\ variant_map' = variant_map @@ (key :> existing_key)
        /\ signature_to_key' = [ signature_to_key EXCEPT ![sig] = key ]
        /\ UNCHANGED << readlex_data, foreign_to_home >>

\* A key whose signature already has a canonical key: its forms are appended
\* to that entry.  merged_entries[existing_key] is the very dict stored in
\* readlex_entries[existing_key], so the extension shows in both.
MergeExisting(key, sig, data) ==
    LET existing_key == signature_to_key[sig]
    IN  /\ merged_entries' = extend_forms(merged_entries, existing_key, data.forms)
        /\ readlex_entries' = extend_forms(readlex_entries, existing_key, data.forms)
        /\ variant_map' = variant_map @@ (key :> existing_key)
        /\ UNCHANGED << readlex_data, signature_to_key, foreign_to_home >>

\* A new entry whose signature is not remembered in signature_to_key.
MergeNew_unregistered(key, sig, data) ==
    /\ merged_entries' = Append(merged_entries, data)
    /\ variant_map' = variant_map @@ (key :> key)
    /\ UNCHANGED << readlex_data, signature_to_key, readlex_entries,
                    foreign_to_home >>

\* A key with a new signature: a new entry, of which it is the canonical key.
MergeNew(key, sig, data) ==
    /\ merged_entries' = Append(merged_entries, data)
    /\ variant_map' = variant_map @@ (key :> key)
    /\ signature_to_key' = signature_to_key @@ (sig :> key)
    /\ UNCHANGED << readlex_data, readlex_entries, foreign_to_home >>

\* for key, data in readlex_entries.items(): one iteration of the merge pass
MergeEntry ==
    /\ pc = "merge"
    /\ i <= Len(readlex_entries)
    /\ LET data == readlex_entries[i]
           key  == data.key
       IN  IF ~HasKey(entry_signatures, key)
           THEN UNCHANGED << readlex_data, readlex_entries, merged_entries,
                             variant_map, signature_to_key, foreign_to_home >>
           ELSE LET sig == Item(entry_signatures, key).sig
                IN  IF sig[1] = "foreign" THEN MergeForeign(key, sig)
                    ELSE IF sig \in DOMAIN signature_to_key
                         THEN MergeExisting(key, sig, data)
                         ELSE MergeNew(key, sig, data)
    /\ i' = i + 1
    /\ UNCHANGED << pc, inputs, history, spelling_variant_cache,
                    entry_signatures, entry_pos, index_to_entries, written >>

-----------------------------------------------------------------------------
(* generate_dictionary, fourth loop: the index projection *)

lemma_forms_of(forms) == SelectSeq(forms, LAMBDA f : f.is_lemma)

\* index_to_entries[word].append(key) unless key is already in that list;
\* index_to_entries is a defaultdict(list).
add_to_index(index, word, key) ==
    IF HasKey(index, word)
    THEN [ n \in 1..Len(index) |->
             IF index[n].key = word /\ key \notin Range(index[n].entries)
             THEN [ index[n] EXCEPT !.entries = Append(@, key) ]
             ELSE index[n] ]
    ELSE Append(index, [ key |-> word, entries |-> << key >> ])

RECURSIVE add_all_to_index(_, _, _)
add_all_to_index(index, words, key) ==
    IF words = << >> THEN index
    ELSE add_all_to_index(add_to_index(index, Head(words), key), Tail(words), key)

\* The orders in which Python may iterate a set.
IterationOrders(S) ==
    { f \in [1..Cardinality(S) -> S] :
          \A a, b \in 1..Cardinality(S) : a # b => f[a] # f[b] }

\* index_words_of when the Latin index word keeps its capital letters.
index_words_of_as_spelled(data, dt) ==
    IF index_key(dt) = "shaw"
    THEN IterationOrders({ lemma_forms_of(data.forms)[n].shaw :
                               n \in 1..Len(lemma_forms_of(data.forms)) })
    ELSE IF lemma_forms_of(data.forms) # << >>
         THEN { << lemma_forms_of(data.forms)[1].latn >> }
         ELSE { << >> }

\* The index words of an entry, in an order of iteration the build may take.
index_words_of(data, dt) ==
    IF index_key(dt) = "shaw"
    THEN IterationOrders({ lemma_forms_of(data.forms)[n].shaw :
                               n \in 1..Len(lemma_forms_of(data.forms)) })
    ELSE IF lemma_forms_of(data.forms) # << >>
         THEN { << lower(lemma_forms_of(data.forms)[1].latn) >> }
         ELSE { << >> }

\* for key, data in merged_entries.items(): one iteration of the projection
IndexEntry ==
    /\ pc = "index"
    /\ i <= Len(merged_entries)
    /\ LET data == merged_entries[i]
       IN  IF data.key \notin DOMAIN variant_map \/ variant_map[data.key] # data.key
           THEN UNCHANGED index_to_entries
           ELSE \E words \in index_words_of(data, dict_type) :
                    index_to_entries' = add_all_to_index(index_to_entries, words, data.key)
    /\ i' = i + 1
    /\ UNCHANGED << pc, inputs, history, readlex_data, spelling_variant_cache,
                    readlex_entries, entry_signatures, entry_pos, merged_entries,
                    variant_map, signature_to_key, foreign_to_home, written >>

-----------------------------------------------------------------------------
(* generate_dictionary: writing the entries *)

\* html.escape(s): & first, then < > " '
escape(s) ==
    replace(replace(replace(replace(replace(s,
        38, << 38, 97, 109, 112, 59 >>),
        60, << 38, 108, 116, 59 >>),
        62, << 38, 103, 116, 59 >>),
        34, << 38, 113, 117, 111, 116, 59 >>),
        39, << 38, 35, 120, 50, 55, 59 >>)

\* word.lstrip(namer dot)
index_sort_key(word) == lstrip(word, namer_dot)

\* sorted(index_to_entries.keys(), key=index_sort_key)
sorted_index_words(index) ==
    LET words == Keys(index)
    IN  SortedBy(words,
                 { p \in (1..Len(words)) \X (1..Len(words)) :
                       SeqLess(index_sort_key(words[p[1]]), index_sort_key(words[p[2]])) })

\* form_index when the Latin spelling keeps its capital letters.
form_index_as_spelled(form, dt) ==
    IF index_key(dt) = "shaw" THEN form.shaw ELSE form.latn

\* form['shaw'] if config['index_key'] == 'shaw' else form['latn'].lower()
form_index(form, dt) ==
    IF index_key(dt) = "shaw" THEN form.shaw ELSE lower(form.latn)

\* The sort key of an entry within the bucket of index_word:
\* (not is_direct_match, lemma_text or '', pos_str)
sort_entries(entry_key, index_word, entries, epos, dt) ==
    LET forms  == Item(entries, entry_key).forms
        direct == \E n \in 1..Len(forms) : form_index(forms[n], dt) = index_word
        lemmas == lemma_forms_of(forms)
        lemma_text == IF lemmas = << >> THEN << >> ELSE lower(lemmas[1].latn)
        pos    == IF entry_key \in DOMAIN epos THEN epos[entry_key] ELSE << >>
        pos_str == IF pos # << >> THEN Concat(SortedSet(Range(pos)))
                   ELSE << 122, 122, 122 >>
    IN  << ~direct, lemma_text, pos_str >>

\* Python's < on the sort keys: False before True, then the two strings.
sort_key_less(k1, k2) ==
    IF k1[1] # k2[1] THEN k2[1]
    ELSE IF k1[2] # k2[2] THEN SeqLess(k1[2], k2[2])
    ELSE SeqLess(k1[3], k2[3])

\* sorted_bucket when the entries of a bucket are left in insertion order.
sorted_bucket_unsorted(entry_keys, index_word, entries, epos, dt) == entry_keys

sorted_bucket(entry_keys, index_word, entries, epos, dt) ==
    SortedBy(entry_keys,
             { p \in (1..Len(entry_keys)) \X (1..Len(entry_keys)) :
                   sort_key_less(sort_entries(entry_keys[p[1]], index_word, entries, epos, dt),
                                 sort_entries(entry_keys[p[2]], index_word, entries, epos, dt)) })

\* The d:index values that one form contributes.
form_indices(form, dt) ==
    IF index_key(dt) = "shaw"
    THEN IF is_proper_noun(form.pos)
         THEN { form_index(form, dt),
                add_namer_dot_if_proper_noun(form_index(form, dt), form.pos) }
         ELSE { form_index(form, dt) }
    ELSE IF is_proper_noun(form.pos)
         THEN { form_index(form, dt), capitalize(form_index(form, dt)) }
         ELSE { form_index(form, dt) }

\* forms_indices when only the lemma-bearing forms give index values.
forms_indices_lemma_only(forms, dt) ==
    UNION { form_indices(forms[n], dt) :
                n \in { m \in 1..Len(forms) : forms[m].is_lemma } }

forms_indices(forms, dt) ==
    UNION { form_indices(forms[n], dt) : n \in 1..Len(forms) }

\* lemma_forms_indices: the forms of the entry and of the foreign keys that
\* foreign_to_home maps to it.
lemma_forms_indices(entry_key, entries, all_entries, f2h, dt) ==
    forms_indices(Item(entries, entry_key).forms, dt)
    \cup UNION { forms_indices(Item(all_entries, fk).forms, dt) :
                     fk \in { k \in DOMAIN f2h : f2h[k] = entry_key } }

\* The heading taken from the index word under which the entry is written.
h1_text_of_index_word(entry_data, index_word, dt) ==
    LET lemmas    == lemma_forms_of(entry_data.forms)
        first_pos == IF lemmas # << >> THEN lemmas[1].pos ELSE << >>
    IN  IF index_key(dt) = "shaw"
        THEN add_namer_dot_if_proper_noun(index_word, first_pos)
        ELSE IF lemmas # << >>
             THEN capitalize_if_proper_noun(lemmas[1].latn, first_pos)
             ELSE index_word

\* The text of the h1 element of an entry.
h1_text(entry_data, index_word, dt) ==
    LET lemmas    == lemma_forms_of(entry_data.forms)
        first_pos == IF lemmas # << >> THEN lemmas[1].pos ELSE << >>
    IN  IF index_key(dt) = "shaw"
        THEN add_namer_dot_if_proper_noun(entry_data.canonical_shavian, first_pos)
        ELSE IF lemmas # << >>
             THEN capitalize_if_proper_noun(lemmas[1].latn, first_pos)
             ELSE index_word

\* One d:entry element: its title, its position in the bucket, the entry it
\* shows, its d:index values in file order and its h1.
d_entry(index_word, entry_idx, entry_key, entries, all_entries, f2h, dt) ==
    [ title |-> escape(index_word),
      entry_idx |-> entry_idx,
      entry_key |-> entry_key,
      index_values |->
          LET vals == lemma_forms_indices(entry_key, entries, all_entries, f2h, dt)
              srt  == SortedSet(vals)
          IN  [ n \in 1..Len(srt) |-> escape(srt[n]) ],
      h1 |-> escape(h1_text(Item(entries, entry_key), index_word, dt)) ]

\* for index_word in sorted(index_to_entries.keys(), ...): the entries of one
\* bucket, sorted, are written one after the other.
WriteBucket ==
    /\ pc = "write"
    /\ i <= Len(index_to_entries)
    /\ LET index_word == sorted_index_words(index_to_entries)[i]
           entry_keys == sorted_bucket(Item(index_to_entries, index_word).entries,
                                       index_word, merged_entries, entry_pos, dict_type)
       IN  written' = written \o
               [ n \in 1..Len(entry_keys) |->
                   d_entry(index_word, n - 1, entry_keys[n], merged_entries,
                           readlex_entries, foreign_to_home, dict_type) ]
    /\ i' = i + 1
    /\ UNCHANGED << pc, inputs, history, readlex_data, spelling_variant_cache,
                    readlex_entries, entry_signatures, entry_pos, merged_entries,
                    variant_map, signature_to_key, foreign_to_home,
                    index_to_entries >>

\* create_front_matter(): the d:entry element that opens the file, with the
\* id front_back_matter, the title and heading About This Dictionary and no
\* d:index. It shows no entry and has no place in a bucket.
create_front_matter ==
    [ title |-> << 65, 98, 111, 117, 116, 32, 84, 104, 105, 115, 32, 68, 105,
                   99, 116, 105, 111, 110, 97, 114, 121 >>,
      entry_idx |-> -1,
      entry_key |-> << 102, 114, 111, 110, 116, 95, 98, 97, 99, 107, 95, 109,
                       97, 116, 116, 101, 114 >>,
      index_values |-> << >>,
      h1 |-> << 65, 98, 111, 117, 116, 32, 84, 104, 105, 115, 32, 68, 105, 99,
                116, 105, 111, 110, 97, 114, 121 >> ]

\* The end of a loop: the build goes on with its next pass. Before the first
\* bucket is written the file is opened and the front matter is written.
LoopExit ==
    /\ \/ /\ pc = "build_entries" /\ i > Len(readlex_data) /\ pc' = "signatures"
          /\ UNCHANGED written
       \/ /\ pc = "signatures" /\ i > Len(readlex_entries) /\ pc' = "merge"
          /\ UNCHANGED written
       \/ /\ pc = "merge" /\ i > Len(readlex_entries) /\ pc' = "index"
          /\ UNCHANGED written
       \/ /\ pc = "index" /\ i > Len(merged_entries) /\ pc' = "write"
          /\ written' = << create_front_matter >>
       \/ /\ pc = "write" /\ i > Len(index_to_entries) /\ pc' = "done"
          /\ UNCHANGED written
    /\ i' = 1
    /\ UNCHANGED << inputs, history, readlex_data, spelling_variant_cache, readlex_entries,
                    entry_signatures, entry_pos, merged_entries, variant_map,
                    signature_to_key, foreign_to_home, index_to_entries >>

Next ==
    \/ ProcessReadlex
    \/ BuildEntry
    \/ AssignSignature
    \/ MergeEntry
    \/ IndexEntry
    \/ WriteBucket
    \/ LoopExit

Spec == Init /\ [][Next]_vars

-----------------------------------------------------------------------------
(* Builds that follow one another: generate_dictionary is called several     *)
(* times in one process, by main() or by another caller, and the program is  *)
(* run again in a new process.                                               *)

\* Largest number of calls of generate_dictionary in one behaviour.
MaxBuilds == 3

\* What a call of generate_dictionary was given and what it has built.
build_result ==
    [ process |-> process,
      dialect |-> dialect,
      dict_type |-> dict_type,
      readlex_raw |-> readlex_raw,
      earlier |-> { completed[n].dialect :
                        n \in { m \in 1..Len(completed) :
                                    completed[m].process = process } },
      memo |-> spelling_variant_cache,
      entry_signatures |-> entry_signatures,
      merged_entries |-> merged_entries,
      foreign_to_home |-> foreign_to_home,
      index_to_entries |-> index_to_entries,
      written |-> written ]

\* generate_dictionary returns.
EndBuild ==
    /\ pc = "done"
    /\ pc' = "returned"
    /\ completed' = Append(completed, build_result)
    /\ UNCHANGED << i, inputs, process, readlex_data, spelling_variant_cache,
                    readlex_entries, entry_signatures, entry_pos, merged_entries,
                    variant_map, signature_to_key, foreign_to_home,
                    index_to_entries, written >>

\* The local variables of generate_dictionary at its start.
fresh_locals ==
    /\ readlex_entries' = << >>
    /\ entry_signatures' = << >>
    /\ entry_pos' = << >>
    /\ merged_entries' = << >>
    /\ variant_map' = << >>
    /\ signature_to_key' = << >>
    /\ foreign_to_home' = << >>
    /\ index_to_entries' = << >>
    /\ written' = << >>

\* main() calls generate_dictionary for the dictionaries asked for, in this
\* order.
dictionaries_in_order == << "shaw-eng", "eng-shaw", "shaw-shaw" >>

\* The dictionary types that main() may build after dt.
later_dictionaries(dt) ==
    { dictionaries_in_order[n] : n \in { m \in 1..3 :
          \E k \in 1..(m - 1) : dictionaries_in_order[k] = dt } }

\* The next call of generate_dictionary that main() makes: for a dictionary
\* type later in its order, with the definitions of that type, for the same
\* dialect and with the same readlex_data and wordnet_cache. The module-level
\* memo of detect_spelling_variant_with_cache is as the call before left it.
NextBuild ==
    /\ pc = "returned"
    /\ Len(completed) < MaxBuilds
    /\ dict_type' \in later_dictionaries(dict_type)
    /\ definitions' = IF use_shavian_cache(dict_type')
                      THEN ShavianDefinitions ELSE LatinDefinitions
    /\ pc' = "build_entries"
    /\ i' = 1
    /\ fresh_locals
    /\ UNCHANGED << dialect, wordnet_cache, readlex_raw, readlex_data,
                    spelling_variant_cache, history >>

\* NextCall when foreign_to_home is kept from the call before.
NextCall_keeping_foreign_to_home ==
    /\ pc = "returned"
    /\ Len(completed) < MaxBuilds
    /\ dialect' \in { "gb", "us" } \ { dialect }
    /\ pc' = "build_entries"
    /\ i' = 1
    /\ readlex_entries' = << >>
    /\ entry_signatures' = << >>
    /\ entry_pos' = << >>
    /\ merged_entries' = << >>
    /\ variant_map' = << >>
    /\ signature_to_key' = << >>
    /\ index_to_entries' = << >>
    /\ written' = << >>
    /\ UNCHANGED << dict_type, wordnet_cache, definitions, readlex_raw,
                    readlex_data, spelling_variant_cache, foreign_to_home,
                    history >>

\* generate_dictionary is called again in the same process by a caller other
\* than main(), for the other dialect: it is given the same objects, its
\* local variables are new, and the module-level memo of
\* detect_spelling_variant_with_cache is as the call before left it.
NextCall ==
    /\ pc = "returned"
    /\ Len(completed) < MaxBuilds
    /\ dialect' \in { "gb", "us" } \ { dialect }
    /\ pc' = "build_entries"
    /\ i' = 1
    /\ fresh_locals
    /\ UNCHANGED << dict_type, wordnet_cache, definitions, readlex_raw,
                    readlex_data, spelling_variant_cache, history >>

\* reversed(xs)
reversed(xs) == [ n \in 1..Len(xs) |-> xs[Len(xs) + 1 - n] ]

\* The program is run once more, in a new process, after a run of one
\* build: the module-level memo is empty again and the readlex file is loaded
\* again, with its keys in the same order or in the opposite one.
Restart ==
    /\ pc = "returned"
    /\ process = 1
    /\ Len(completed) = 1
    /\ Len(completed) < MaxBuilds
    /\ process' = process + 1
    /\ dialect' \in { "gb", "us" }
    /\ readlex_raw' \in { readlex_raw, reversed(readlex_raw) }
    /\ readlex_data' = << >>
    /\ spelling_variant_cache' = << >>
    /\ pc' = "process_readlex"
    /\ i' = 1
    /\ fresh_locals
    /\ UNCHANGED << dict_type, wordnet_cache, definitions, completed >>

InitProcess ==
    /\ pc = "process_readlex"
    /\ i = 1
    /\ dialect \in { "gb", "us" }
    /\ dict_type \in DictTypes
    /\ wordnet_cache = WordnetCache
    /\ definitions = IF use_shavian_cache(dict_type)
                     THEN ShavianDefinitions ELSE LatinDefinitions
    /\ readlex_raw \in ReadlexFiles(ProcessKeys, MaxKeys)
    /\ readlex_data = << >>
    /\ spelling_variant_cache = << >>
    /\ readlex_entries = << >>
    /\ entry_signatures = << >>
    /\ entry_pos = << >>
    /\ merged_entries = << >>
    /\ variant_map = << >>
    /\ signature_to_key = << >>
    /\ foreign_to_home = << >>
    /\ index_to_entries = << >>
    /\ written = << >>
    /\ process = 1
    /\ completed = << >>

NextProcess ==
    \/ ProcessReadlex
    \/ BuildEntry
    \/ AssignSignature
    \/ MergeEntry
    \/ IndexEntry
    \/ WriteBucket
    \/ LoopExit
    \/ EndBuild
    \/ NextBuild
    \/ NextCall
    \/ Restart

SpecProcess == InitProcess /\ [][NextProcess]_vars

SpecFamily == InitFamily /\ [][Next]_vars

SpecSense == InitSense /\ [][Next]_vars

TypeOK == pc \in { "process_readlex", "build_entries", "signatures", "merge",
                   "index", "write", "done", "returned" }

-----------------------------------------------------------------------------
(* Properties of the build *)

\* The places in the file of the elements that show an entry: every element
\* but the front matter.
WrittenEntries == { n \in 1..Len(written) : written[n] # create_front_matter }

AfterMerge == pc \in { "index", "write", "done" }

RawKeys == { readlex_data[n].key : n \in 1..Len(readlex_data) }

SignatureOf(key) == Item(entry_signatures, key).sig

ForeignKeys ==
    { k \in RawKeys : HasKey(entry_signatures, k) /\ SignatureOf(k)[1] = "foreign" }

BySenseKeys ==
    { k \in RawKeys : HasKey(entry_signatures, k) /\ SignatureOf(k)[1] = "synset" }

MergedKeys == { merged_entries[n].key : n \in 1..Len(merged_entries) }

\* A form of an entry as the record of the lexicon it was made from.
RecordOf(form) ==
    [ Shaw |-> form.shaw, Latn |-> form.latn, pos |-> form.pos,
      ipa |-> form.ipa, var |-> form.var ]

\* The records of a key as the lexicon gives them.
InputRecords(key) ==
    LET entries == Item(readlex_data, key).entries
    IN  [ n \in 1..Len(entries) |->
            [ entries[n] EXCEPT !.ipa = normalize_readlex_ipa(@) ] ]

\* The records of the keys of a set, in the order of the lexicon.
InputRecordsOf(keys) ==
    Concat([ n \in 1..Len(readlex_data) |->
               IF readlex_data[n].key \in keys
               THEN InputRecords(readlex_data[n].key) ELSE << >> ])

EntryRecords(data) == [ n \in 1..Len(data.forms) |-> RecordOf(data.forms[n]) ]

MergedRecords ==
    Concat([ n \in 1..Len(merged_entries) |-> EntryRecords(merged_entries[n]) ])

RECURSIVE SeqToBag(_)
SeqToBag(s) ==
    IF s = << >> THEN EmptyBag ELSE SeqToBag(Tail(s)) (+) SetToBag({ Head(s) })

\* The records of a key are among the forms of the entry of variant_map[key].
HeldByItsEntry(key) ==
    /\ key \in DOMAIN variant_map
    /\ variant_map[key] \in MergedKeys
    /\ Range(InputRecords(key))
           \subseteq Range(EntryRecords(Item(merged_entries, variant_map[key])))

\* C1 (as stated): after the merge pass every record of every key of the
\* lexicon is a member of the forms of exactly one entry: the entries hold
\* each record once, none is missing and none is held twice.
C1_PartitionOfAllRecords ==
    AfterMerge =>
        /\ SeqToBag(MergedRecords) = SeqToBag(InputRecordsOf(RawKeys))
        /\ \A k \in RawKeys : HeldByItsEntry(k)

\* C1 (amended): after the merge pass every record of every key whose
\* signature is not a foreign one is a member of the forms of exactly one
\* entry, the entry of its key; the records of a key with a foreign
\* signature are in no entry.
C1_Partition ==
    AfterMerge =>
        /\ SeqToBag(MergedRecords) = SeqToBag(InputRecordsOf(RawKeys \ ForeignKeys))
        /\ \A k \in RawKeys \ ForeignKeys : HeldByItsEntry(k)
        /\ \A k \in ForeignKeys : k \notin DOMAIN variant_map

\* The merge pass is over, it has merged two keys into one entry and has
\* passed over a foreign key.
C1_Witness ==
    /\ AfterMerge
    /\ \E k \in DOMAIN variant_map : variant_map[k] # k
    /\ ForeignKeys # {}

\* Two keys are in the same entry: they have the same canonical key and the
\* entry of that key holds the records of both.
SameEntry(r1, r2) ==
    /\ HeldByItsEntry(r1)
    /\ HeldByItsEntry(r2)
    /\ variant_map[r1] = variant_map[r2]

\* C2 (as stated): the records of any two keys end up in the same entry
\* exactly when the signatures of the two keys are equal.
C2_SignatureEquivalenceOfAllKeys ==
    AfterMerge =>
        \A r1, r2 \in RawKeys :
            SameEntry(r1, r2) <=> (SignatureOf(r1) = SignatureOf(r2))

\* C2 (amended): the records of any two keys whose signatures are not
\* foreign ones end up in the same entry exactly when the signatures of the
\* two keys are equal.
C2_SignatureEquivalence ==
    AfterMerge =>
        \A r1, r2 \in RawKeys \ ForeignKeys :
            SameEntry(r1, r2) <=> (SignatureOf(r1) = SignatureOf(r2))

\* The merge pass is over; two different keys had the same signature and are
\* in one entry, and two keys had different signatures and are in two.
C2_Witness ==
    /\ AfterMerge
    /\ \E r1, r2 \in RawKeys \ ForeignKeys :
           r1 # r2 /\ SignatureOf(r1) = SignatureOf(r2) /\ SameEntry(r1, r2)
    /\ \E r1, r2 \in RawKeys \ ForeignKeys :
           SignatureOf(r1) # SignatureOf(r2) /\ ~SameEntry(r1, r2)

\* C3: a key with the foreign signature of sense s is recorded as a
\* cross-reference on an entry with a sense signature of s whenever a key
\* with such a signature exists, wherever that key stands in the order of
\* processing; it is dropped only when no such key exists.
C3_ForeignCrossReference ==
    AfterMerge =>
        \A f \in ForeignKeys :
            LET s     == SignatureOf(f)[3]
                homes == { h \in BySenseKeys : SignatureOf(h)[3] = s }
            IN  IF homes # {}
                THEN /\ f \in DOMAIN foreign_to_home
                     /\ foreign_to_home[f] \in MergedKeys \cap homes
                ELSE f \notin DOMAIN foreign_to_home

\* The entry of a canonical key holds, in the order of the lexicon, the
\* records of the keys that variant_map sends to it, and of no other key.
FormsComeFromItsKeys(data) ==
    EntryRecords(data) =
        InputRecordsOf({ k \in DOMAIN variant_map : variant_map[k] = data.key })

\* C4: at every point of the merge pass and after it, a key with a foreign
\* signature is not the canonical key of an entry, is not in variant_map and
\* has contributed no forms to any entry; only such keys are cross-referenced.
C4_ForeignNeverAnEntry ==
    /\ MergedKeys \cap ForeignKeys = {}
    /\ DOMAIN variant_map \cap ForeignKeys = {}
    /\ \A s \in DOMAIN signature_to_key : signature_to_key[s] \notin ForeignKeys
    /\ \A n \in 1..Len(merged_entries) : FormsComeFromItsKeys(merged_entries[n])
    /\ DOMAIN foreign_to_home \subseteq ForeignKeys

\* The merge pass has just gone over a foreign key while entries exist.
C4_Witness ==
    /\ pc = "merge"
    /\ i > 1
    /\ readlex_entries[i - 1].key \in ForeignKeys
    /\ merged_entries # << >>

\* The first sense of a key as the WordNet cache gives it for the key's
\* lemma and first part of speech; None when it gives none.
FirstSense(key) ==
    LET senses == IF key \in DOMAIN entry_pos /\ entry_pos[key] # << >>
                  THEN get_synsets_from_cache(signature_lemma(key),
                                              entry_pos[key][1], wordnet_cache)
                  ELSE << >>
    IN  IF senses = << >> THEN None ELSE senses[1]

\* The key is spelled in the other dialect for its first sense.
ForeignSpelled(key) ==
    /\ FirstSense(key) # None
    /\ is_foreign_dialect_lemma(signature_lemma(key), FirstSense(key),
                                home_dialect(dialect), wordnet_cache)

CanonicalShavian(key) == Item(readlex_data, key).canonical_shavian

\* Two different keys with the same canonical Shavian spelling whose lemmas
\* have different first senses under the same part of speech.
Homographs(r1, r2) ==
    /\ r1 # r2
    /\ CanonicalShavian(r1) = CanonicalShavian(r2)
    /\ FirstSense(r1) # None
    /\ FirstSense(r2) # None
    /\ entry_pos[r1][1] = entry_pos[r2][1]
    /\ FirstSense(r1) # FirstSense(r2)

\* Two keys have an entry each, and in a build indexed by Shavian spelling
\* both entries are in the bucket of the spelling the keys share.
SeparateInSharedBucket(r1, r2) ==
    /\ r1 \in DOMAIN variant_map
    /\ r2 \in DOMAIN variant_map
    /\ variant_map[r1] # variant_map[r2]
    /\ index_key(dict_type) = "shaw" =>
           /\ HasKey(index_to_entries, CanonicalShavian(r1))
           /\ { variant_map[r1], variant_map[r2] } \subseteq
                  Range(Item(index_to_entries, CanonicalShavian(r1)).entries)
           /\ pc = "done" =>
                  \A r \in { r1, r2 } :
                      \E n \in WrittenEntries :
                          /\ written[n].title = escape(CanonicalShavian(r1))
                          /\ written[n].entry_key = variant_map[r]

\* C5: two keys with the same canonical Shavian spelling whose lemmas have
\* different first senses under the same part of speech produce two
\* different entries, and in a build indexed by Shavian spelling both
\* entries are in the bucket of the spelling the keys share and are written
\* under it.
C5_HomographSeparation ==
    pc \in { "write", "done" } =>
        \A r1, r2 \in RawKeys :
            Homographs(r1, r2) => SeparateInSharedBucket(r1, r2)

\* The entries for a sense under the lemmas of a set.
EntriesFor(sense, lemmas) ==
    { n \in 1..Len(merged_entries) :
          /\ FirstSense(merged_entries[n].key) = sense
          /\ signature_lemma(merged_entries[n].key) \in lemmas }

ColourKeyNames == { k.key : k \in ColourKeys }

\* C6: when a home spelling and a foreign spelling share a sense, the build
\* holds exactly one entry for that sense under the two spellings and none of
\* its own for the foreign spelling; colour and color with a noun sense and a
\* verb sense give exactly 2 entries, one noun and one verb, not 4.
C6_SpellingVariantMerge ==
    AfterMerge =>
        /\ \A h, f \in RawKeys :
               ( /\ FirstSense(h) # None
                 /\ ~ForeignSpelled(h)
                 /\ ForeignSpelled(f)
                 /\ FirstSense(h) = FirstSense(f) )
               => /\ Cardinality(EntriesFor(FirstSense(h),
                        { signature_lemma(h), signature_lemma(f) })) = 1
                  /\ f \notin MergedKeys
                  /\ f \notin DOMAIN variant_map
        /\ ColourKeyNames \subseteq RawKeys =>
               /\ Cardinality(MergedKeys \cap ColourKeyNames) = 2
               /\ { entry_pos[k] : k \in MergedKeys \cap ColourKeyNames }
                      = { << p_n >>, << p_v >> }

\* The four colour keys have been merged into two entries.
C6_Witness ==
    /\ AfterMerge
    /\ ColourKeyNames \subseteq RawKeys
    /\ Len(merged_entries) = 2
    /\ \E h, f \in RawKeys :
           ~ForeignSpelled(h) /\ ForeignSpelled(f) /\ FirstSense(h) = FirstSense(f)

\* C7: two keys with the same lemma and the same part of speech but
\* different canonical Shavian spellings are never merged into one entry.
C7_HeteronymSeparation ==
    AfterMerge =>
        \A r1, r2 \in RawKeys :
            ( /\ r1 # r2
              /\ signature_lemma(r1) = signature_lemma(r2)
              /\ entry_pos[r1] = entry_pos[r2]
              /\ CanonicalShavian(r1) # CanonicalShavian(r2) )
            => ~( /\ r1 \in DOMAIN variant_map
                  /\ r2 \in DOMAIN variant_map
                  /\ variant_map[r1] = variant_map[r2] )

\* The index values of an entry: those of its forms and of the forms of the
\* foreign keys cross-referenced on it.
IndexValuesOf(entry_key) ==
    { escape(v) : v \in lemma_forms_indices(entry_key, merged_entries,
                                            readlex_entries, foreign_to_home,
                                            dict_type) }

\* C8: within one projection each entry is written at most once, and for any
\* lookup value v the written entries that carry v are as many as the
\* entries that have a form, or a cross-referenced foreign form, spelled v.
C8_NoDuplication ==
    pc = "done" =>
        /\ \A a, b \in WrittenEntries :
               a # b => written[a].entry_key # written[b].entry_key
        /\ \A v \in UNION { IndexValuesOf(k) : k \in MergedKeys } :
               Cardinality({ n \in WrittenEntries :
                                 v \in Range(written[n].index_values) })
                   = Cardinality({ k \in MergedKeys : v \in IndexValuesOf(k) })

\* C9: in a build indexed by Shavian spelling the index term of an entry is
\* the canonical Shavian spelling of its canonical key and no other.
C9_ShavianIndexTerm ==
    (pc \in { "write", "done" } /\ index_key(dict_type) = "shaw") =>
        \A n \in 1..Len(index_to_entries) :
            \A k \in Range(index_to_entries[n].entries) :
                index_to_entries[n].key = CanonicalShavian(k)

\* The heading the canonical key of an entry gives it: its canonical Shavian
\* spelling, after the namer dot when the first lemma form is a proper noun.
CanonicalHeading(entry_key) ==
    LET data   == Item(merged_entries, entry_key)
        lemmas == SelectSeq(data.forms, LAMBDA f : f.shaw = CanonicalShavian(entry_key))
        proper == lemmas # << >> /\ contains(lemmas[1].pos, NP0)
    IN  escape(IF proper THEN namer_dot \o CanonicalShavian(entry_key)
               ELSE CanonicalShavian(entry_key))

\* C10: in a build indexed by Shavian spelling the heading of a written
\* entry is the canonical Shavian spelling of its canonical key, after the
\* namer dot for a proper noun, also when the entry carries the index value
\* of an inflected form.
C10_CanonicalDisplay ==
    (pc = "done" /\ index_key(dict_type) = "shaw") =>
        \A n \in WrittenEntries :
            written[n].h1 = CanonicalHeading(written[n].entry_key)

\* A written entry carries the index value of an inflected form and is
\* headed by the canonical spelling, which differs from it.
C10_Witness ==
    /\ pc = "done"
    /\ index_key(dict_type) = "shaw"
    /\ \E n \in WrittenEntries :
           \E f \in Range(Item(merged_entries, written[n].entry_key).forms) :
               /\ ~f.is_lemma
               /\ escape(f.shaw) \in Range(written[n].index_values)
               /\ written[n].h1 # escape(f.shaw)
               /\ written[n].h1 = CanonicalHeading(written[n].entry_key)

\* The forms of the entry that a written d:entry element shows.
FormsOfWritten(n) == Range(Item(merged_entries, written[n].entry_key).forms)

\* C11 as stated: for every written entry and every one of its forms, lemma
\* or inflected, the spelling of the form on the index axis, Shavian or
\* Latin, is among the d:index values of the entry.
C11_FormSpellingIndexed ==
    pc = "done" =>
        \A n \in WrittenEntries :
            \A f \in FormsOfWritten(n) :
                escape(IF index_key(dict_type) = "shaw" THEN f.shaw ELSE f.latn)
                    \in Range(written[n].index_values)

\* C11: for every written entry and every one of its forms, lemma or
\* inflected, the d:index values of the entry hold the Shavian spelling of
\* the form in a build indexed by Shavian spelling and the lower-cased Latin
\* spelling of the form in a build indexed by Latin spelling.
C11_InflectedFormReachability ==
    pc = "done" =>
        \A n \in WrittenEntries :
            \A f \in FormsOfWritten(n) :
                escape(IF index_key(dict_type) = "shaw" THEN f.shaw
                       ELSE lower(f.latn))
                    \in Range(written[n].index_values)

\* A written entry has an inflected form, which is among its index values,
\* beside a written entry whose Latin spelling has a capital letter.
C11_Witness ==
    /\ pc = "done"
    /\ index_key(dict_type) = "latn"
    /\ \E n \in WrittenEntries :
           \E f \in FormsOfWritten(n) :
               /\ ~f.is_lemma
               /\ escape(lower(f.latn)) \in Range(written[n].index_values)
    /\ \E n \in WrittenEntries :
           \E f \in FormsOfWritten(n) : lower(f.latn) # f.latn

\* The builds that have returned.
Builds == 1..Len(completed)

\* Two builds were given the same dialect, dictionary type, sense data and
\* readlex keys in the same order.
SameInputs(a, b) ==
    /\ completed[a].dialect = completed[b].dialect
    /\ completed[a].dict_type = completed[b].dict_type
    /\ completed[a].readlex_raw = completed[b].readlex_raw

\* C12: two runs of generate_dictionary over identical inputs, one in each
\* of two processes, end with identical entries, identical index buckets
\* with identical internal order, and the same entries written in the same
\* order, whatever the order in which the sets of the build are iterated.
C12_Determinism ==
    \A a, b \in Builds :
        (completed[a].process # completed[b].process /\ SameInputs(a, b))
        => /\ completed[a].merged_entries = completed[b].merged_entries
           /\ Range(completed[a].index_to_entries)
                  = Range(completed[b].index_to_entries)
           /\ completed[a].written = completed[b].written

OtherDialect(d) == IF d = "gb" THEN "us" ELSE "gb"

\* Build b ran in a process in which a build for the other dialect had
\* returned before.
AfterOtherDialect(b) == OtherDialect(completed[b].dialect) \in completed[b].earlier

\* C13: a build that is the first of its process and a build with the same
\* inputs that follows a build for the other dialect in its process end with
\* the same signatures, the same entries, the same cross-references and the
\* same index buckets, although the memo of spelling variants and the input
\* objects are those the earlier build left.
C13_DialectIsolation ==
    \A a, b \in Builds :
        ( /\ completed[a].earlier = { }
          /\ AfterOtherDialect(b)
          /\ SameInputs(a, b) )
        => /\ completed[a].entry_signatures = completed[b].entry_signatures
           /\ completed[a].merged_entries = completed[b].merged_entries
           /\ completed[a].foreign_to_home = completed[b].foreign_to_home
           /\ Range(completed[a].index_to_entries)
                  = Range(completed[b].index_to_entries)

\* A build with a cross-reference has followed, in its process, a build for
\* the other dialect that left a memo, and the same build was also made as
\* the first of a process.
C13_Witness ==
    \E a, b \in Builds :
        /\ completed[a].earlier = { }
        /\ AfterOtherDialect(b)
        /\ SameInputs(a, b)
        /\ b > 1
        /\ completed[b - 1].process = completed[b].process
        /\ completed[b - 1].dialect # completed[b].dialect
        /\ completed[b - 1].memo # << >>
        /\ DOMAIN completed[b].foreign_to_home # { }
        /\ completed[a].foreign_to_home = completed[b].foreign_to_home

\* C14: generate_dictionary leaves its inputs as they were given: at every
\* point of a build readlex_data holds for each key the lemma, the canonical
\* spelling and the record list that process_readlex_with_lemmas made, and
\* the definitions and wordnet_cache are those that were loaded, also after
\* entries were merged by extending form lists.
C14_InputsReadOnly ==
    pc # "process_readlex" =>
        /\ readlex_data = process_readlex_with_lemmas(readlex_raw)
        /\ wordnet_cache = WordnetCache
        /\ definitions = IF use_shavian_cache(dict_type)
                         THEN ShavianDefinitions ELSE LatinDefinitions

\* A build has returned in which the forms of an entry were extended by
\* those of a second key, and the record lists of the input are as before.
C14_Witness ==
    /\ pc = "done"
    /\ \E n \in 1..Len(merged_entries) :
           Len(merged_entries[n].forms)
               > Len(Item(readlex_data, merged_entries[n].key).entries)
    /\ readlex_data = process_readlex_with_lemmas(readlex_raw)

\* The definitions of the entry of which key is the canonical key.
DefinitionsOf(key) == Item(merged_entries, key).definitions

\* C15: a key for whose lemma and first part of speech the sense data has
\* no sense gets the signature made of the key itself and an entry of its
\* own, and the definition list of that entry is empty.
C15_MissingSenseData ==
    AfterMerge =>
        \A key \in RawKeys :
            FirstSense(key) = None
            => /\ SignatureOf(key) = << "readlex", key >>
               /\ key \in MergedKeys
               /\ DefinitionsOf(key) = << >>

\* The keys of the readlex file that have no record.
EmptyKeys ==
    { readlex_raw[n].key : n \in { m \in 1..Len(readlex_raw) :
                                       readlex_raw[m].entries = << >> } }

\* C16: a key with zero records makes the run fail before any output is
\* produced: the build never comes to write its output, and the key is not
\* turned into an entry without forms.
C16_InvalidInputFailsLoudly ==
    EmptyKeys # { } =>
        /\ pc \notin { "write", "done" }
        /\ \A n \in 1..Len(merged_entries) :
               ~( /\ merged_entries[n].key \in EmptyKeys
                  /\ merged_entries[n].forms = << >> )

\* C17: within one entry no record appears twice: after any number of
\* merges no two elements of the forms of an entry agree on spelling, tag,
\* transcription and variant code, also when two keys with the same
\* signature hold an identical record.
C17_FormDeduplication ==
    \A n \in 1..Len(merged_entries) :
        \A a, b \in 1..Len(merged_entries[n].forms) :
            a # b => RecordOf(merged_entries[n].forms[a])
                         # RecordOf(merged_entries[n].forms[b])

\* Two builds were given the same dialect, dictionary type, sense data and
\* readlex keys, in whatever order.
SameKeys(a, b) ==
    /\ completed[a].dialect = completed[b].dialect
    /\ completed[a].dict_type = completed[b].dict_type
    /\ Range(completed[a].readlex_raw) = Range(completed[b].readlex_raw)

\* The entries a build ended with: canonical key, definitions and forms,
\* whatever the order of the entries and of the forms within an entry.
EntriesOfBuild(b) ==
    { [ key |-> e.key, definitions |-> e.definitions, forms |-> Range(e.forms) ] :
          e \in Range(completed[b].merged_entries) }

\* C18: for any two orderings of the same keys of the lexicon the builds end
\* with the same entries, each with the same canonical key, the same
\* definitions and the same forms, and with the same cross-references from
\* foreign keys to home keys.
C18_OrderIndependence ==
    \A a, b \in Builds :
        SameKeys(a, b)
        => /\ EntriesOfBuild(a) = EntriesOfBuild(b)
           /\ completed[a].foreign_to_home = completed[b].foreign_to_home

\* The entry has a form whose spelling on the index axis is the index word.
DirectMatch(entry_key, index_word) ==
    \E f \in Range(Item(merged_entries, entry_key).forms) :
        form_index(f, dict_type) = index_word

\* The Latin spelling of the first lemma-bearing form of the entry.
LemmaSpelling(entry_key) ==
    LET lemmas == lemma_forms_of(Item(merged_entries, entry_key).forms)
    IN  IF lemmas = << >> THEN << >> ELSE lemmas[1].latn

\* The sorted part-of-speech codes of the entry, concatenated.
PosCodes(entry_key) ==
    IF entry_key \in DOMAIN entry_pos
    THEN Concat(SortedSet(Range(entry_pos[entry_key])))
    ELSE << >>

\* (direct, lemma, pos) of one entry comes before that of another: a direct
\* match before the others, then the lemma spellings as strings, then the
\* part-of-speech codes as strings, an entry without any after one with some.
KeyBefore(d1, l1, p1, d2, l2, p2) ==
    IF d1 # d2 THEN d1
    ELSE IF l1 # l2 THEN SeqLess(l1, l2)
    ELSE IF p1 = << >> \/ p2 = << >> THEN p1 # << >> /\ p2 = << >>
    ELSE SeqLess(p1, p2)

\* The place of an entry in the bucket of an index word, in insertion order.
PlaceInBucket(entry_key, title) ==
    LET bucket == CHOOSE b \in Range(index_to_entries) : escape(b.key) = title
    IN  CHOOSE n \in 1..Len(bucket.entries) : bucket.entries[n] = entry_key

\* The index word of the bucket written under a title.
WordOfTitle(title) ==
    (CHOOSE b \in Range(index_to_entries) : escape(b.key) = title).key

\* C19 as stated: within a bucket the entries are written in non-decreasing
\* order of (not a direct match, lemma spelling, concatenated sorted
\* part-of-speech codes), an entry without a part of speech after those with
\* one; entries with equal keys keep the order of insertion into the bucket.
C19_BucketOrderBySpelling ==
    pc = "done" =>
        \A a, b \in WrittenEntries :
            (a < b /\ written[a].title = written[b].title)
            => LET ka == written[a].entry_key
                   kb == written[b].entry_key
                   w  == WordOfTitle(written[a].title)
               IN  /\ ~KeyBefore(DirectMatch(kb, w), LemmaSpelling(kb), PosCodes(kb),
                                 DirectMatch(ka, w), LemmaSpelling(ka), PosCodes(ka))
                   /\ ~KeyBefore(DirectMatch(ka, w), LemmaSpelling(ka), PosCodes(ka),
                                 DirectMatch(kb, w), LemmaSpelling(kb), PosCodes(kb))
                      => PlaceInBucket(ka, written[a].title)
                             < PlaceInBucket(kb, written[a].title)

\* C19: within a bucket the entries are written in non-decreasing order of
\* (not a direct match, lower-cased lemma spelling, concatenated sorted
\* part-of-speech codes), an entry without a part of speech after those with
\* one; entries with equal keys keep the order of insertion into the bucket.
C19_BucketOrdering ==
    pc = "done" =>
        \A a, b \in WrittenEntries :
            (a < b /\ written[a].title = written[b].title)
            => LET ka == written[a].entry_key
                   kb == written[b].entry_key
                   w  == WordOfTitle(written[a].title)
                   la == lower(LemmaSpelling(ka))
                   lb == lower(LemmaSpelling(kb))
               IN  /\ ~KeyBefore(DirectMatch(kb, w), lb, PosCodes(kb),
                                 DirectMatch(ka, w), la, PosCodes(ka))
                   /\ ~KeyBefore(DirectMatch(ka, w), la, PosCodes(ka),
                                 DirectMatch(kb, w), lb, PosCodes(kb))
                      => PlaceInBucket(ka, written[a].title)
                             < PlaceInBucket(kb, written[a].title)

\* A bucket of three entries has been written: the entry without a part of
\* speech was inserted first and is written last, after two entries with
\* equal keys, which are written in their order of insertion.
C19_Witness ==
    /\ pc = "done"
    /\ \E a, b, c \in WrittenEntries :
           /\ a < b /\ b < c
           /\ written[a].title = written[b].title
           /\ written[b].title = written[c].title
           /\ lower(LemmaSpelling(written[a].entry_key))
                  = lower(LemmaSpelling(written[c].entry_key))
           /\ PosCodes(written[a].entry_key) = PosCodes(written[b].entry_key)
           /\ PosCodes(written[a].entry_key) # << >>
           /\ PosCodes(written[c].entry_key) = << >>
           /\ PlaceInBucket(written[c].entry_key, written[a].title) = 1
           /\ PlaceInBucket(written[a].entry_key, written[a].title)
                  < PlaceInBucket(written[b].entry_key, written[a].title)

\* The places of an entry in the index: bucket and position in the bucket.
PlacesInIndex(entry_key) ==
    { p \in (1..Len(index_to_entries)) \X (1..Len(merged_entries)) :
          /\ p[2] <= Len(index_to_entries[p[1]].entries)
          /\ index_to_entries[p[1]].entries[p[2]] = entry_key }

\* C20: in a build indexed by Latin spelling every entry with a
\* lemma-bearing form is in exactly one bucket, that of the lower-cased
\* Latin spelling of its first lemma-bearing form, and is there once.
C20_SourceScriptIndexTerm ==
    (pc \in { "write", "done" } /\ index_key(dict_type) = "latn") =>
        \A k \in MergedKeys :
            lemma_forms_of(Item(merged_entries, k).forms) # << >>
            => /\ Cardinality(PlacesInIndex(k)) = 1
               /\ \A p \in PlacesInIndex(k) :
                      index_to_entries[p[1]].key = lower(LemmaSpelling(k))

\* A build indexed by Latin spelling has put an entry whose lemma is written
\* with a capital letter in the bucket of the lower-cased spelling, and an
\* entry with several forms in one bucket.
C20_Witness ==
    /\ pc = "done"
    /\ index_key(dict_type) = "latn"
    /\ \E k \in MergedKeys :
           /\ LemmaSpelling(k) # << >>
           /\ lower(LemmaSpelling(k)) # LemmaSpelling(k)
           /\ \E p \in PlacesInIndex(k) :
                  index_to_entries[p[1]].key = lower(LemmaSpelling(k))
    /\ \E k \in MergedKeys :
           /\ Len(Item(merged_entries, k).forms) > 1
           /\ Cardinality(PlacesInIndex(k)) = 1

AfterSignatures == pc \in { "merge", "index", "write", "done" }

\* The part-of-speech codes that the tags of the records of a key give.
DerivedCodes(key) ==
    LET entries == Item(readlex_data, key).entries
    IN  UNION { pos_letter(entries[n].pos) : n \in 1..Len(entries) }

\* The smallest of a non-empty set of codes, as strings compare.
SmallestCode(codes) ==
    CHOOSE c \in codes : \A d \in codes : c = d \/ SeqLess(c, d)

\* The senses that the sense data returns for the key's lemma under the
\* smallest of its codes; none when the key has no code.
ReturnedSenses(key) ==
    IF DerivedCodes(key) = {} THEN << >>
    ELSE get_synsets_from_cache(signature_lemma(key),
                                SmallestCode(DerivedCodes(key)), wordnet_cache)

\* C21: once the signatures are assigned every key has exactly one.  A key
\* with a non-empty set of part-of-speech codes is looked up under the
\* smallest code of the set, and its signature carries the first sense
\* returned for (lemma, that code): the foreign signature of lemma and
\* sense when the classifier says foreign for that sense, the sense
\* signature otherwise.  A key without a code or without a returned sense
\* has the signature ('readlex', key).
C21_SignatureDerivation ==
    AfterSignatures =>
        /\ Keys(entry_signatures) = Keys(readlex_data)
        /\ \A n \in 1..Len(entry_signatures) :
               LET key    == entry_signatures[n].key
                   sig    == entry_signatures[n].sig
                   lemma  == signature_lemma(key)
                   senses == ReturnedSenses(key)
               IN  IF senses = << >> THEN sig = << "readlex", key >>
                   ELSE IF is_foreign_dialect_lemma(lemma, senses[1],
                                                    home_dialect(dialect), wordnet_cache)
                        THEN sig = << "foreign", lemma, senses[1] >>
                        ELSE sig = << "synset", lemma, senses[1] >>

\* The signatures are assigned; a key whose records give two codes got the
\* first sense of the smaller code though its lemma has senses under the
\* other code too, a key with two returned senses got the first, a key got
\* a foreign signature and a key got the signature ('readlex', key).
C21_Witness ==
    /\ AfterSignatures
    /\ \E k \in RawKeys :
           /\ Cardinality(DerivedCodes(k)) = 2
           /\ \A c \in DerivedCodes(k) :
                  get_synsets_from_cache(signature_lemma(k), c, wordnet_cache) # << >>
           /\ SignatureOf(k) = << "synset", signature_lemma(k), ReturnedSenses(k)[1] >>
    /\ \E k \in RawKeys : Len(ReturnedSenses(k)) >= 2
    /\ \E k \in RawKeys : SignatureOf(k)[1] = "foreign"
    /\ \E k \in RawKeys : SignatureOf(k)[1] = "readlex"

\* The sense identifiers to classify a lemma for: those of its senses in the
\* sense data, one that the data does not have and the empty one.
SenseIdsFor(lemma) ==
    { << >>, << 63 >> }
        \cup (IF lower(lemma) \in DOMAIN wordnet_cache
              THEN { s.synset : s \in Range(all_senses(wordnet_cache[lower(lemma)])) }
              ELSE {})

\* In the sense with this identifier the home dialect has at least one
\* spelling listed and the lower-cased lemma is not among them.
HomeSpelledOtherwise(lemma, synset_id, home) ==
    /\ lower(lemma) \in DOMAIN wordnet_cache
    /\ \E s \in Range(all_senses(wordnet_cache[lower(lemma)])) :
           /\ s.synset = synset_id
           /\ home \in DOMAIN s.variants
           /\ s.variants[home] # << >>
           /\ lower(lemma) \notin Range(s.variants[home])

\* C22: for the lemma of every key, every sense identifier and the home
\* dialect of the build, is_foreign_dialect_lemma is true exactly when the
\* sense lists at least one spelling for the home dialect and the
\* lower-cased lemma is not among them; it is false when the lemma is
\* unknown, the sense is not found, the home dialect is absent from the
\* mapping or is listed with no spelling.
C22_ForeignClassification ==
    AfterSignatures =>
        \A k \in RawKeys :
            \A id \in SenseIdsFor(signature_lemma(k)) :
                is_foreign_dialect_lemma(signature_lemma(k), id,
                                         home_dialect(dialect), wordnet_cache)
                    <=> HomeSpelledOtherwise(signature_lemma(k), id, home_dialect(dialect))

\* The code under which the definitions of a key are looked up in a build
\* with the Shavian definition cache; None when its tags give none.
DefinitionCode(key) ==
    LET kps == key_pos_set(Item(readlex_data, key).entries)
    IN  IF kps = {} THEN None ELSE SmallestCode(kps)

\* The code under which the senses of a key are looked up for its signature.
SignatureCode(key) ==
    IF DerivedCodes(key) = {} THEN None ELSE SmallestCode(DerivedCodes(key))

\* The transliterated definitions that the definition cache has for the
\* senses returned to the signature lookup of a key, in their order.
DefinitionsOfReturnedSenses(key) ==
    LET lemma  == Item(readlex_data, key).lemma
        senses == ReturnedSenses(key)
    IN  Concat([ n \in 1..Len(senses) |->
                   IF CacheKey(lemma, senses[n]) \in DOMAIN definitions
                   THEN << definitions[CacheKey(lemma, senses[n])].transliterated_definition >>
                   ELSE << >> ])

\* C23: in the builds that use the Shavian definition cache (eng-shaw,
\* shaw-shaw) the code under which the definitions of a key are looked up
\* is the code under which its signature was computed, and the definitions
\* of a key with a sense signature are those of the senses returned by the
\* lookup that gave the sense of its signature.
C23_DefinitionsFromSignatureLookup ==
    (AfterSignatures /\ use_shavian_cache(dict_type)) =>
        \A k \in RawKeys :
            /\ DefinitionCode(k) = SignatureCode(k)
            /\ k \in BySenseKeys =>
                   LET defs == Item(readlex_entries, k).definitions
                   IN  [ n \in 1..Len(defs) |-> defs[n].definition ]
                           = DefinitionsOfReturnedSenses(k)

\* The merge pass is at a key with a signature; KeyAtHand is that key.
KeyAtHand == readlex_entries[i].key

\* The step that is taken merges the key at hand into an existing entry: its
\* signature is not a foreign one and has a canonical key already.
MergesIntoExisting ==
    /\ pc = "merge"
    /\ i <= Len(readlex_entries)
    /\ i' = i + 1
    /\ HasKey(entry_signatures, KeyAtHand)
    /\ SignatureOf(KeyAtHand)[1] # "foreign"
    /\ SignatureOf(KeyAtHand) \in DOMAIN signature_to_key

\* C24: a step that merges a key into an existing entry leaves the key, the
\* canonical spelling and the definitions of that entry as they were,
\* appends the records of the merged key at the end of its forms, and
\* changes no other entry; no entry is added or removed.
C24_MergeChangesFormsOnly ==
    [][ MergesIntoExisting =>
          LET existing_key == signature_to_key[SignatureOf(KeyAtHand)]
              before       == Item(merged_entries, existing_key)
              after        == Item(merged_entries', existing_key)
          IN  /\ Keys(merged_entries') = Keys(merged_entries)
              /\ after.key = before.key
              /\ after.canonical_shavian = before.canonical_shavian
              /\ after.definitions = before.definitions
              /\ after.forms = before.forms \o Item(readlex_entries, KeyAtHand).forms
              /\ EntryRecords(after) = EntryRecords(before) \o InputRecords(KeyAtHand)
              /\ \A n \in 1..Len(merged_entries) :
                     merged_entries[n].key # existing_key
                         => merged_entries'[n] = merged_entries[n]
      ]_vars

\* A key has been merged into the entry of another key, whose forms are the
\* records of the two keys in that order and whose definitions are those of
\* the first, and there is a second entry.
C24_Witness ==
    /\ Len(merged_entries) >= 2
    /\ \E k \in DOMAIN variant_map :
           /\ variant_map[k] # k
           /\ LET e == Item(merged_entries, variant_map[k])
              IN  /\ EntryRecords(e) = InputRecords(variant_map[k]) \o InputRecords(k)
                  /\ InputRecords(k) # << >>
                  /\ e.definitions # << >>

\* The keys in the order in which the merge pass processes them.
ProcessingOrder == Keys(readlex_entries)

\* The first key in processing order that has this signature.
FirstKeyWith(sig) ==
    LET at == { n \in 1..Len(ProcessingOrder) :
                    /\ HasKey(entry_signatures, ProcessingOrder[n])
                    /\ SignatureOf(ProcessingOrder[n]) = sig }
    IN  ProcessingOrder[CHOOSE n \in at : \A m \in at : n <= m]

\* The canonical key of every signature in signature_to_key is the first key
\* in processing order with that signature; after the merge pass every
\* signature that is not a foreign one has a canonical key.
FirstObservedIsCanonical ==
    /\ \A sig \in DOMAIN signature_to_key :
           /\ sig[1] # "foreign"
           /\ signature_to_key[sig] = FirstKeyWith(sig)
    /\ AfterMerge =>
           \A k \in RawKeys \ ForeignKeys : SignatureOf(k) \in DOMAIN signature_to_key

\* No step of the build changes or removes the canonical key of a signature.
CanonicalKeyKept ==
    \A sig \in DOMAIN signature_to_key :
        /\ sig \in DOMAIN signature_to_key'
        /\ signature_to_key'[sig] = signature_to_key[sig]

\* C25: first observed wins.  At every moment of the build the canonical key
\* of a signature is the first key with that signature in processing order,
\* and once signature_to_key holds a canonical key for a signature it never
\* changes for the rest of the pass.
C25_FirstObservedWins ==
    [] FirstObservedIsCanonical /\ [][ CanonicalKeyKept ]_vars

\* The merge pass is over; a signature has two keys, of which the one
\* processed first is its canonical key and the other was merged into it.
C25_Witness ==
    /\ AfterMerge
    /\ \E a, b \in 1..Len(ProcessingOrder) :
           /\ a < b
           /\ SignatureOf(ProcessingOrder[a]) = SignatureOf(ProcessingOrder[b])
           /\ SignatureOf(ProcessingOrder[a]) \in DOMAIN signature_to_key
           /\ signature_to_key[SignatureOf(ProcessingOrder[a])] = ProcessingOrder[a]
           /\ variant_map[ProcessingOrder[b]] = ProcessingOrder[a]

\* The keys whose signature is the one of a key without a sense.
UngroupedKeys ==
    { k \in RawKeys : HasKey(entry_signatures, k) /\ SignatureOf(k)[1] = "readlex" }

\* C26: a key without a sense never merges.  Its signature names the key
\* itself; it is never merged into the entry of another key, no other key is
\* merged into its entry and no foreign key is cross-referenced to it; once
\* the merge pass has processed it, it is the canonical key of an entry whose
\* forms are exactly its own records, and after the pass it has such an entry.
C26_UngroupedNeverMerges ==
    \A k \in UngroupedKeys :
        /\ SignatureOf(k) = << "readlex", k >>
        /\ \A other \in DOMAIN variant_map : variant_map[other] = k => other = k
        /\ \A f \in DOMAIN foreign_to_home : foreign_to_home[f] # k
        /\ k \in DOMAIN variant_map =>
               /\ variant_map[k] = k
               /\ k \in MergedKeys
               /\ EntryRecords(Item(merged_entries, k)) = InputRecords(k)
        /\ AfterMerge => k \in DOMAIN variant_map

\* The merge pass is over; two keys of one lemma without a sense have an
\* entry each, with their own records, beside the entry of a key with a sense.
C26_Witness ==
    /\ AfterMerge
    /\ \E k1, k2 \in UngroupedKeys :
           /\ k1 # k2
           /\ lower(signature_lemma(k1)) = lower(signature_lemma(k2))
           /\ InputRecords(k1) # << >>
           /\ EntryRecords(Item(merged_entries, k1)) = InputRecords(k1)
           /\ EntryRecords(Item(merged_entries, k2)) = InputRecords(k2)
    /\ BySenseKeys # {}

\* C27: in both projections every entry placed in the bucket of an index
\* word has a form whose spelling on the index axis is that word, so the
\* first element of its sort key (not a direct match) is FALSE for every
\* entry of the bucket and never separates two of them.
C27_BucketedEntryIsDirectMatch ==
    \A n \in 1..Len(index_to_entries) :
        \A k \in Range(index_to_entries[n].entries) :
            /\ DirectMatch(k, index_to_entries[n].key)
            /\ sort_entries(k, index_to_entries[n].key, merged_entries,
                            entry_pos, dict_type)[1] = FALSE

\* The build by Latin spelling is done; a bucket holds two entries, one of
\* them with a lemma that is written with a capital letter.
C27_Witness ==
    /\ pc = "done"
    /\ index_key(dict_type) = "latn"
    /\ \E n \in 1..Len(index_to_entries) :
           /\ Len(index_to_entries[n].entries) >= 2
           /\ \E k \in Range(index_to_entries[n].entries) :
                  /\ lower(LemmaSpelling(k)) # LemmaSpelling(k)
                  /\ lower(LemmaSpelling(k)) = index_to_entries[n].key

\* C28: no entry is lost at the projection.  Once the index pass is over
\* every entry that the merge pass produced is in at least one bucket, and
\* when the build is done every such entry has been written, whatever its
\* forms are.
C28_NoEntryLostAtProjection ==
    /\ pc \in { "write", "done" } =>
           \A k \in MergedKeys : PlacesInIndex(k) # {}
    /\ pc = "done" =>
           \A k \in MergedKeys : \E n \in WrittenEntries : written[n].entry_key = k

\* The keys whose signature carries a lemma and a sense.
SensedKeys == BySenseKeys \cup ForeignKeys

\* C29: the lemma in the signature of a key is the lower-cased lemma that
\* process_readlex_with_lemmas derived for the key, the one under which its
\* definitions are looked up; hence two keys whose prefixes differ only in
\* letter case and whose signatures carry the same sense have equal
\* signatures and, when they are not foreign, are merged into one entry.
C29_SignatureLemmaIsLowerCased ==
    /\ AfterSignatures =>
           \A k \in SensedKeys : SignatureOf(k)[2] = Item(readlex_data, k).lemma
    /\ AfterMerge =>
           \A k1, k2 \in SensedKeys :
               ( /\ lower(signature_lemma(k1)) = lower(signature_lemma(k2))
                 /\ SignatureOf(k1)[3] = SignatureOf(k2)[3] )
               => /\ SignatureOf(k1) = SignatureOf(k2)
                  /\ (k1 \in BySenseKeys => SameEntry(k1, k2))

\* The spellings that the sense of a lemma lists for a dialect.
ListedSpellings(lemma, synset_id, d) ==
    IF lower(lemma) \notin DOMAIN wordnet_cache THEN {}
    ELSE UNION { Range(s.variants[d]) :
                   s \in { t \in Range(all_senses(wordnet_cache[lower(lemma)])) :
                               t.synset = synset_id /\ d \in DOMAIN t.variants } }

\* C30: the home entry of a foreign key is its spelling variant.  Whenever a
\* key with the foreign signature of lemma l and sense s is cross-referenced
\* to an entry, the signature of that entry's key is a sense signature with
\* the same s, and its lemma is one of the spellings that sense s of l lists
\* for the home dialect.
C30_HomeEntryIsSpellingVariant ==
    \A f \in DOMAIN foreign_to_home :
        LET foreign_sig == SignatureOf(f)
            home_sig    == SignatureOf(foreign_to_home[f])
        IN  /\ foreign_to_home[f] \in MergedKeys
            /\ home_sig[1] = "synset"
            /\ home_sig[3] = foreign_sig[3]
            /\ lower(home_sig[2]) \in
                   ListedSpellings(foreign_sig[2], foreign_sig[3], home_dialect(dialect))

====
